---- MODULE Spec2Model ----
(***************************************************************************)
(* A model of jogger's task resolution and execution engine:               *)
(*   - the Config Locator (jogger/utils/files.py, jogger/utils/input.py),  *)
(*   - TaskProxy construction and execution (jogger/tasks/base.py and the  *)
(*     earlier jogger/main.py),                                            *)
(*   - Task.execute, Task.get_task_proxy and Task.cli                      *)
(*     (jogger/tasks/base.py),                                             *)
(*   - the command line entry point main() (jogger/main.py).               *)
(*                                                                         *)
(* Text is modelled as a sequence of tokens: a path is a sequence over     *)
(* "/" and directory names, a task name is a sequence of characters, a     *)
(* message is a sequence of literal pieces and characters.                 *)
(***************************************************************************)
EXTENDS Integers, Sequences, FiniteSets, TLC

(***************************************************************************)
(* Bounds of the model.                                                    *)
(***************************************************************************)
\* longest from_path handed to find_file, in tokens
MaxPathLen == 6
\* largest max_search_depth handed to find_file
MaxSearchDepth == 3
\* deepest working directory handed to find_config_file
MaxCwdDepth == 11
\* most directories of the chain that contain a searched file
MaxFiles == 2

(***************************************************************************)
(* Program constants.                                                      *)
(***************************************************************************)
MAX_CONFIG_FILE_SEARCH_DEPTH == 10
JOG_FILE_NAME == "jog.py"
sep == "/"

\* the file names searched for: the manifest and another file
FileNames == {JOG_FILE_NAME, "setup.cfg"}

(***************************************************************************)
(* Generic helpers on sequences.                                           *)
(***************************************************************************)
Max(a, b) == IF a >= b THEN a ELSE b

Last(s) == s[Len(s)]

Front(s) == SubSeq(s, 1, Len(s) - 1)

\* all sequences over S of length at most n
SeqsUpTo(S, n) == UNION {[1..k -> S] : k \in 0..n}

Range(s) == {s[i] : i \in 1..Len(s)}

(***************************************************************************)
(* Paths.  The directories of interest form one chain below the root:      *)
(* "/", "/a", "/a/a", ...; a path names the directory whose depth is the   *)
(* number of its name components.                                          *)
(***************************************************************************)
DirName == "a"

\* str.rfind(sep) + 1: the length of the prefix ending at the last separator
RECURSIVE rfind1(_)
rfind1(p) ==
    IF p = <<>> THEN 0
    ELSE IF Last(p) = sep THEN Len(p)
    ELSE rfind1(Front(p))

\* str.rstrip(sep)
RECURSIVE rstrip(_)
rstrip(p) ==
    IF p = <<>> THEN p
    ELSE IF Last(p) = sep THEN rstrip(Front(p))
    ELSE p

AllSep(p) == \A i \in 1..Len(p) : p[i] = sep

\* posixpath.dirname
dirname(p) ==
    LET head == SubSeq(p, 1, rfind1(p))
    IN  IF head # <<>> /\ ~AllSep(head) THEN rstrip(head) ELSE head

\* posixpath.join(path, name) for a relative name
join(path, name) ==
    IF path = <<>> \/ Last(path) = sep THEN Append(path, name)
    ELSE path \o <<sep, name>>

\* the depth of the directory an absolute path names
DirDepth(p) == Cardinality({i \in 1..Len(p) : p[i] = DirName})

\* os.path.exists(filename) for filename = join(dir, name): the file system
\* is the set fs of <<depth, name>> pairs of the files that exist
exists(fs, filename) ==
    /\ filename # <<>>
    /\ <<DirDepth(Front(filename)), Last(filename)>> \in fs

\* the loop without the break on a match: the search goes on upwards
RECURSIVE find_file_loop_no_break_acc(_, _, _, _, _, _)
find_file_loop_no_break_acc(fs, target_file_name, path, depth, max_search_depth, m) ==
    IF ~(path # <<>> /\ depth < max_search_depth)
    THEN m
    ELSE LET filename == join(path, target_file_name)
             new_path == dirname(path)
             m2 == IF exists(fs, filename)
                   THEN [found |-> TRUE, path |-> filename] ELSE m
         IN  IF new_path = path THEN m2
             ELSE find_file_loop_no_break_acc(fs, target_file_name, new_path,
                                              depth + 1, max_search_depth, m2)

find_file_loop_no_break(fs, target_file_name, path, depth, max_search_depth) ==
    find_file_loop_no_break_acc(fs, target_file_name, path, depth,
                                max_search_depth, [found |-> FALSE, path |-> <<>>])

\* the loop without the depth test: the search only stops at the root
RECURSIVE find_file_loop_unbounded(_, _, _, _, _)
find_file_loop_unbounded(fs, target_file_name, path, depth, max_search_depth) ==
    IF path = <<>>
    THEN [found |-> FALSE, path |-> <<>>]
    ELSE LET filename == join(path, target_file_name)
             new_path == dirname(path)
         IN  IF exists(fs, filename) THEN [found |-> TRUE, path |-> filename]
             ELSE IF new_path = path THEN [found |-> FALSE, path |-> <<>>]
             ELSE find_file_loop_unbounded(fs, target_file_name, new_path,
                                           depth + 1, max_search_depth)

\* the while loop of find_file, from the state (path, depth)
RECURSIVE find_file_loop(_, _, _, _, _)
find_file_loop(fs, target_file_name, path, depth, max_search_depth) ==
    IF ~(path # <<>> /\ depth < max_search_depth)
    THEN [found |-> FALSE, path |-> <<>>]
    ELSE LET filename == join(path, target_file_name)
             new_path == dirname(path)
         IN  IF exists(fs, filename) THEN [found |-> TRUE, path |-> filename]
             ELSE IF new_path = path THEN [found |-> FALSE, path |-> <<>>]
             ELSE find_file_loop(fs, target_file_name, new_path,
                                 depth + 1, max_search_depth)

\* find_file: found = FALSE stands for the raised FileNotFoundError
find_file(fs, target_file_name, from_path, max_search_depth) ==
    find_file_loop(fs, target_file_name, from_path, 0, max_search_depth)

\* find_config_file of jogger/utils/input.py: the same loop from os.getcwd()
find_config_file(fs, getcwd, target_file_name) ==
    find_file_loop(fs, target_file_name, getcwd, 0, MAX_CONFIG_FILE_SEARCH_DEPTH)

\* find_config_file of jogger/main.py: the loop joins JOG_FILE_NAME to the
\* path, whatever target_file_name is
main_find_config_file(fs, getcwd, target_file_name) ==
    find_file_loop(fs, JOG_FILE_NAME, getcwd, 0, MAX_CONFIG_FILE_SEARCH_DEPTH)

\* find_config_file of jog_cmd/main.py: the same loop, again on JOG_FILE_NAME
jog_cmd_find_config_file(fs, getcwd, target_file_name) ==
    find_file_loop(fs, JOG_FILE_NAME, getcwd, 0, MAX_CONFIG_FILE_SEARCH_DEPTH)

(***************************************************************************)
(* Task names.  A key of the task mapping is a string (a sequence of       *)
(* characters) or some other object; chars is its str().                   *)
(***************************************************************************)
\* longest task name, in characters
MaxNameLen == 2

WordChars == {"a", "b", "_", "1"}

NameChars == {"a", "_", "-", " ", "\n"}

StrName(chars) == [type |-> "str", chars |-> chars]

NonStringNames == {[type |-> "int", chars |-> <<"5">>],
                   [type |-> "NoneType", chars |-> <<"None">>]}

AllNames == {StrName(c) : c \in SeqsUpTo(NameChars, MaxNameLen)} \cup NonStringNames

AllWord(chars) == \A i \in 1..Len(chars) : chars[i] \in WordChars

\* re.compile(r'^\w+$').match(s) on a string: "$" also matches just before a
\* newline that ends the string
regex_match(chars) ==
    /\ chars # <<>>
    /\ \/ AllWord(chars)
       \/ Last(chars) = "\n" /\ Len(chars) >= 2 /\ AllWord(Front(chars))

\* TASK_NAME_RE.match(name): a match, no match, or the TypeError of a
\* name that is not a string
TASK_NAME_RE_match(name) ==
    IF name.type # "str" THEN "TypeError"
    ELSE IF regex_match(name.chars) THEN "match" ELSE "None"

(***************************************************************************)
(* Task definitions: the values of the task mapping.                       *)
(***************************************************************************)
NoDoc == <<"None">>

StrDef(cmd) == [kind |-> "str", text |-> cmd]
\* a subclass of Task with the given help attribute
TaskClassDef(help) == [kind |-> "Task", text |-> help]
\* a function with the given __doc__ (NoDoc: no docstring)
FuncDef(doc) == [kind |-> "function", text |-> doc]
\* a class that does not derive from Task
OtherClassDef(doc) == [kind |-> "class", text |-> doc]
\* an instance of a Task subclass, an integer, None
ObjectDef(kind) == [kind |-> kind, text |-> <<>>]

Definitions ==
    {StrDef(<<"make all">>),
     TaskClassDef(<<"Lint the project.">>),
     FuncDef(<<"\n", "Build the docs.", "\n">>),
     FuncDef(NoDoc),
     OtherClassDef(<<"A helper.">>),
     ObjectDef("Task instance"),
     ObjectDef("int"),
     ObjectDef("NoneType")}

isinstance_str(task) == task.kind = "str"

isinstance_type(task) == task.kind \in {"Task", "class"}

issubclass_Task(task) == task.kind = "Task"

callable(task) == task.kind \in {"Task", "class", "function"}

\* inspect.cleandoc on a docstring of line tokens: leading and trailing
\* blank lines are removed; a missing docstring has no expandtabs()
RECURSIVE lstrip_blank(_)
lstrip_blank(doc) ==
    IF doc # <<>> /\ Head(doc) = "\n" THEN lstrip_blank(Tail(doc)) ELSE doc

RECURSIVE rstrip_blank(_)
rstrip_blank(doc) ==
    IF doc # <<>> /\ Last(doc) = "\n" THEN rstrip_blank(Front(doc)) ELSE doc

cleandoc(doc) == rstrip_blank(lstrip_blank(doc))

(***************************************************************************)
(* TaskProxy.__init__.  The result is the constructed proxy, or the        *)
(* exception the constructor raised (raised # "none").                     *)
(***************************************************************************)
Unset == "unset"

\* an output channel: the target it wraps and its default style
Channel(stream, default_style) == [stream |-> stream, default_style |-> default_style]

NoChannel == Channel("none", "none")

\* an argument vector: a list of arguments, or None
Argv(args) == [is_none |-> FALSE, args |-> args]

NoneArgv == [is_none |-> TRUE, args |-> <<>>]

RaisedProxy(type, message) ==
    [raised |-> type, message |-> message, exec_mode |-> Unset,
     executor |-> Unset, help_text |-> <<>>, has_own_args |-> FALSE,
     prog |-> <<>>, name |-> <<>>, task |-> ObjectDef("NoneType"),
     argv |-> NoneArgv, stdout |-> NoChannel, stderr |-> NoChannel,
     cls |-> Unset]

BuiltProxy(cls, exec_mode, executor, help_text, has_own_args, prog, name, task, stdout, stderr, argv) ==
    [raised |-> "none", message |-> <<>>, exec_mode |-> exec_mode,
     executor |-> executor, help_text |-> help_text,
     has_own_args |-> has_own_args, prog |-> prog \o <<" ">> \o name.chars,
     name |-> name.chars, task |-> task, argv |-> argv,
     stdout |-> stdout, stderr |-> stderr, cls |-> cls]

InvalidNameMessage(name) ==
    <<"Task name \"">> \o name.chars
        \o <<"\" is not valid - must be a string containing alphanumeric characters and the underscore only.">>

UnrecognisedMessage(name) ==
    <<"Unrecognised task format for \"">> \o name.chars \o <<"\".">>

\* the name check with the TypeError of a non-string name left uncaught
valid_name_uncaught(name) ==
    CASE TASK_NAME_RE_match(name) = "match" -> "valid"
      [] TASK_NAME_RE_match(name) = "None" -> "invalid"
      [] OTHER -> "TypeError"

\* the try/except around TASK_NAME_RE.match(name)
valid_name(name) ==
    CASE TASK_NAME_RE_match(name) = "match" -> "valid"
      [] TASK_NAME_RE_match(name) = "None" -> "invalid"
      [] OTHER -> "invalid"

\* TaskProxy.__init__ of jogger/tasks/base.py
TaskProxy_init(prog, name, task, stdout, stderr, argv) ==
    CASE valid_name(name) = "invalid" ->
            RaisedProxy("TaskDefinitionError", InvalidNameMessage(name))
      [] valid_name(name) = "TypeError" ->
            RaisedProxy("TypeError", <<"expected string or bytes-like object">>)
      [] OTHER ->
            IF isinstance_str(task)
            THEN BuiltProxy("base", "cli", "execute_string", task.text, FALSE,
                            prog, name, task, stdout, stderr, argv)
            ELSE IF isinstance_type(task) /\ issubclass_Task(task)
            THEN BuiltProxy("base", "python", "execute_class", task.text, TRUE,
                            prog, name, task, stdout, stderr, argv)
            ELSE IF callable(task)
            THEN BuiltProxy("base", "python", "execute_callable",
                            IF task.text # NoDoc THEN cleandoc(task.text) ELSE <<>>,
                            FALSE, prog, name, task, stdout, stderr, argv)
            ELSE RaisedProxy("TaskDefinitionError", UnrecognisedMessage(name))

\* os.path.basename(sys.argv[0])
ProgName == <<"jog">>

\* TaskProxy.__init__ of jogger/main.py: cleandoc() is applied to __doc__
\* whether or not there is a docstring
main_TaskProxy_init(name, task, stdout, stderr, argv) ==
    CASE valid_name(name) = "invalid" ->
            RaisedProxy("TaskDefinitionError", InvalidNameMessage(name))
      [] valid_name(name) = "TypeError" ->
            RaisedProxy("TypeError", <<"expected string or bytes-like object">>)
      [] OTHER ->
            IF isinstance_str(task)
            THEN BuiltProxy("main", "cli", "execute_string", task.text, FALSE,
                            ProgName, name, task, stdout, stderr, argv)
            ELSE IF isinstance_type(task) /\ issubclass_Task(task)
            THEN BuiltProxy("main", "python", "execute_class", task.text, TRUE,
                            ProgName, name, task, stdout, stderr, argv)
            ELSE IF callable(task)
            THEN IF task.text = NoDoc
                 THEN RaisedProxy("AttributeError",
                          <<"'NoneType' object has no attribute 'expandtabs'">>)
                 ELSE BuiltProxy("main", "python", "execute_callable",
                                 cleandoc(task.text), FALSE,
                                 ProgName, name, task, stdout, stderr, argv)
            ELSE RaisedProxy("TaskDefinitionError", UnrecognisedMessage(name))

(***************************************************************************)
(* State.                                                                  *)
(***************************************************************************)
VARIABLES
    pc,         \* the position of the run
    files,      \* the file system: the <<depth, file name>> pairs that exist
    cwd,        \* os.getcwd()
    call,       \* the function applied and its inputs (locator, constructor)
    ret,        \* what the applied function returned or raised
    manifest,   \* what the manifest file defines: the tasks mapping, if any
    sys_argv,   \* sys.argv[1:]
    argv,       \* the argv parameter of main()
    arguments,  \* the namespace parse_args() returned
    tasks,      \* the tasks mapping of main(), in insertion order
    idx,        \* the position of main()'s loop over tasks.items()
    stack,      \* the execute() calls in progress, innermost last
    exc,        \* the exception that is propagating, if any
    out,        \* what was written to the streams, in order
    exit_code,  \* the exit code of the process, once it has ended
    ran,        \* the task bodies that ran, in order
    subcalls    \* the number of get_task_proxy() calls made

pureVars == <<call, ret>>

runVars == <<manifest, sys_argv, argv, arguments, tasks, idx, stack, exc, out,
             exit_code, ran, subcalls>>

vars == <<pc, files, cwd, call, ret, manifest, sys_argv, argv, arguments,
          tasks, idx, stack, exc, out, exit_code, ran, subcalls>>

NoExc == [type |-> "none", message |-> <<>>, code |-> 0]

NoArguments == [task_name |-> "None", extra |-> <<>>]

NoManifest == [has_tasks |-> FALSE, entries |-> <<>>]

\* the variables of a run of main() while no run is modelled
RunIdle ==
    /\ manifest = NoManifest
    /\ sys_argv = <<>>
    /\ argv = NoneArgv
    /\ arguments = NoArguments
    /\ tasks = <<>>
    /\ idx = 0
    /\ stack = <<>>
    /\ exc = NoExc
    /\ out = <<>>
    /\ exit_code = -1
    /\ ran = <<>>
    /\ subcalls = 0

NoCall == [fn |-> "none"]
NoRet == [set |-> FALSE]

(***************************************************************************)
(* File systems and paths of the bounded model.                            *)
(***************************************************************************)
RECURSIVE SubsetsUpTo(_, _)
SubsetsUpTo(U, n) ==
    IF n = 0 THEN {{}}
    ELSE LET S == SubsetsUpTo(U, n - 1)
         IN  S \cup {s \cup {x} : s \in S, x \in U}

\* file systems with files in directories down to depth d
FileSystems(d) == SubsetsUpTo((0..d) \X FileNames, MaxFiles)

\* os.getcwd() in the directory of depth d: "/" or "/a/a/.../a"
RECURSIVE CwdPath(_)
CwdPath(d) == IF d = 0 THEN <<sep>>
              ELSE IF d = 1 THEN <<sep, DirName>>
              ELSE CwdPath(d - 1) \o <<sep, DirName>>

\* absolute paths as a caller may write them: repeated and trailing
\* separators are allowed, every name is a whole component
FromPaths ==
    {p \in SeqsUpTo({sep, DirName}, MaxPathLen) :
        /\ p # <<>>
        /\ p[1] = sep
        /\ \A i \in 1..(Len(p) - 1) : ~(p[i] = DirName /\ p[i + 1] = DirName)}

(***************************************************************************)
(* The locator applied to drawn inputs.                                    *)
(***************************************************************************)
InitFind ==
    /\ pc = "call"
    /\ RunIdle
    /\ ret = NoRet
    /\ \/ /\ call \in [fn : {"find_file"}, target_file_name : FileNames,
                       from_path : FromPaths,
                       max_search_depth : 0..MaxSearchDepth]
          /\ files \in FileSystems(MaxPathLen)
          /\ cwd = CwdPath(0)
       \/ /\ call \in [fn : {"find_config_file", "main.find_config_file",
                             "jog_cmd.find_config_file"},
                       target_file_name : FileNames]
          /\ files \in FileSystems(MaxCwdDepth)
          /\ cwd \in {CwdPath(d) : d \in 0..MaxCwdDepth}

FindFile ==
    /\ pc = "call"
    /\ call.fn = "find_file"
    /\ ret' = find_file(files, call.target_file_name, call.from_path,
                        call.max_search_depth)
    /\ pc' = "done"
    /\ UNCHANGED <<files, cwd, call, runVars>>

FindConfigFile ==
    /\ pc = "call"
    /\ call.fn = "find_config_file"
    /\ ret' = find_config_file(files, cwd, call.target_file_name)
    /\ pc' = "done"
    /\ UNCHANGED <<files, cwd, call, runVars>>

\* find_config_file(target_file_name) of jogger/main.py
FindMainConfigFile ==
    /\ pc = "call"
    /\ call.fn = "main.find_config_file"
    /\ ret' = main_find_config_file(files, cwd, call.target_file_name)
    /\ pc' = "done"
    /\ UNCHANGED <<files, cwd, call, runVars>>

\* find_config_file(target_file_name) of jog_cmd/main.py
FindJogCmdConfigFile ==
    /\ pc = "call"
    /\ call.fn = "jog_cmd.find_config_file"
    /\ ret' = jog_cmd_find_config_file(files, cwd, call.target_file_name)
    /\ pc' = "done"
    /\ UNCHANGED <<files, cwd, call, runVars>>

NextFind ==
    \/ FindFile
    \/ FindConfigFile
    \/ FindMainConfigFile
    \/ FindJogCmdConfigFile

SpecFind == InitFind /\ [][NextFind]_vars

(***************************************************************************)
(* TaskProxy construction applied to drawn names and definitions.          *)
(***************************************************************************)
InitProxy ==
    /\ pc = "call"
    /\ RunIdle
    /\ ret = NoRet
    /\ files = {}
    /\ cwd = CwdPath(0)
    /\ call \in [fn : {"TaskProxy", "main.TaskProxy"}, name : AllNames,
                 task : Definitions, argv : {NoneArgv, Argv(<<>>)}]

\* TaskProxy(prog, name, task, stdout, stderr, argv) of jogger/tasks/base.py
ConstructTaskProxy ==
    /\ pc = "call"
    /\ call.fn = "TaskProxy"
    /\ ret' = TaskProxy_init(ProgName, call.name, call.task,
                             Channel("<stdout>", "none"),
                             Channel("<stderr>", "none"), call.argv)
    /\ pc' = "done"
    /\ UNCHANGED <<files, cwd, call, runVars>>

\* TaskProxy(name, task, stdout, stderr, argv) of jogger/main.py
ConstructMainTaskProxy ==
    /\ pc = "call"
    /\ call.fn = "main.TaskProxy"
    /\ ret' = main_TaskProxy_init(call.name, call.task,
                                  Channel("<stdout>", "none"),
                                  Channel("<stderr>", "none"), call.argv)
    /\ pc' = "done"
    /\ UNCHANGED <<files, cwd, call, runVars>>

\* TaskProxy.output_help_line() of jogger/tasks/base.py: the line of the
\* task in the list of tasks, and the usage hint of a task with arguments
output_help_line(p) ==
    LET name == <<"heading(">> \o p.name \o <<")">>
        help_text == IF p.exec_mode = "cli"
                     THEN <<"green(">> \o p.help_text \o <<")">>
                     ELSE <<"blue(">> \o p.help_text \o <<")">>
        line == [stream |-> p.stdout.stream, style |-> p.stdout.default_style,
                 msg |-> name \o <<": ">> \o help_text, ending |-> "\n",
                 by |-> "output_help_line"]
        usage == [stream |-> p.stdout.stream, style |-> p.stdout.default_style,
                  msg |-> <<"    See \"">> \o p.prog
                              \o <<" --help\" for usage details">>,
                  ending |-> "\n", by |-> "output_help_line"]
    IN  IF p.has_own_args THEN <<line, usage>> ELSE <<line>>

\* proxy.output_help_line() on a proxy that was constructed
OutputHelpLine ==
    /\ pc = "done"
    /\ call.fn = "TaskProxy"
    /\ ret.raised = "none"
    /\ out' = out \o output_help_line(ret)
    /\ pc' = "listed"
    /\ UNCHANGED <<files, cwd, call, ret, manifest, sys_argv, argv, arguments,
                   tasks, idx, stack, exc, exit_code, ran, subcalls>>

NextProxy == ConstructTaskProxy \/ ConstructMainTaskProxy \/ OutputHelpLine

SpecProxy == InitProxy /\ [][NextProxy]_vars

(***************************************************************************)
(* Properties of TaskProxy construction.                                   *)
(***************************************************************************)
Constructed == pc = "done" /\ call.fn \in {"TaskProxy", "main.TaskProxy"}

\* the name is a string that matches ^\w+$
NameMatches(name) == name.type = "str" /\ regex_match(name.chars)

Classified(r, exec_mode, has_own_args) ==
    /\ r.raised = "none"
    /\ r.exec_mode = exec_mode
    /\ r.has_own_args = has_own_args

\* C1: for a name matching ^\w+$ the constructor classifies the definition
\* in exactly one way, in this order: a string is a 'cli' task without own
\* arguments whose help text is the string; a class derived from Task is a
\* 'python' task with own arguments; any other callable is a 'python' task
\* without own arguments; anything else raises TaskDefinitionError and is
\* given no classification.
C1_ClassificationTotal ==
    (Constructed /\ NameMatches(call.name)) =>
        CASE call.task.kind = "str" ->
                 Classified(ret, "cli", FALSE) /\ ret.help_text = call.task.text
          [] call.task.kind = "Task" -> Classified(ret, "python", TRUE)
          [] call.task.kind \in {"function", "class"} ->
                 Classified(ret, "python", FALSE)
          [] OTHER -> /\ ret.raised = "TaskDefinitionError"
                      /\ ret.exec_mode = Unset
                      /\ ret.executor = Unset

\* C2: for a name that does not match ^\w+$ (empty, with a dash or a space,
\* not a string) the constructor raises the TaskDefinitionError of the name
\* check whatever the definition is, and gives the definition no
\* classification.
C2_InvalidNameRejected ==
    (Constructed /\ ~NameMatches(call.name)) =>
        /\ ret.raised = "TaskDefinitionError"
        /\ ret.message = InvalidNameMessage(call.name)
        /\ ret.exec_mode = Unset
        /\ ret.executor = Unset

\* a name that is not a string was rejected for a function without docstring
\* by the constructor of jogger/main.py
C2_Witness ==
    /\ Constructed
    /\ call.fn = "main.TaskProxy"
    /\ call.name.type = "int"
    /\ call.task = FuncDef(NoDoc)
    /\ ret.raised = "TaskDefinitionError"

(***************************************************************************)
(* Properties of the locator.                                              *)
(***************************************************************************)
Located == pc = "done" /\ call.fn \in {"find_file", "find_config_file"}

\* the directory the search starts in, and the bound of the search
StartPath == IF call.fn = "find_file" THEN call.from_path ELSE cwd

StartDepth == DirDepth(StartPath)

SearchBound == IF call.fn = "find_file" THEN call.max_search_depth
               ELSE MAX_CONFIG_FILE_SEARCH_DEPTH

\* the k-th parent of the start directory exists and contains the target
InParent(k) == k <= StartDepth /\ <<StartDepth - k, call.target_file_name>> \in files

ReturnedDepth == DirDepth(Front(ret.path))

\* C8: a returned path is the target file in the directory nearest to the
\* start directory among those that contain it (never one further up), and
\* the start directory itself when it contains the file and is searched.
C8_NearestMatch ==
    Located =>
        /\ ret.found =>
              /\ Last(ret.path) = call.target_file_name
              /\ ReturnedDepth <= StartDepth
              /\ InParent(StartDepth - ReturnedDepth)
              /\ \A k \in 0..StartDepth :
                     InParent(k) => k >= StartDepth - ReturnedDepth
        /\ (InParent(0) /\ SearchBound >= 1) =>
              ret.found /\ ReturnedDepth = StartDepth

\* the file is in two ancestors of the start directory and the nearer one,
\* which is not the start directory, is returned
C8_Witness ==
    /\ Located
    /\ ret.found
    /\ ReturnedDepth < StartDepth
    /\ \E k \in 0..StartDepth : InParent(k) /\ StartDepth - k < ReturnedDepth

\* C9: when the target is absent from the start directory and from every
\* ancestor within the bound, the search fails (FileNotFoundError), even if
\* the file exists further up.
C9_NotFoundWithinBound ==
    (Located /\ \A k \in 0..SearchBound : ~InParent(k)) => ~ret.found

\* the search failed although an ancestor beyond the bound has the file
C9_Witness ==
    /\ Located
    /\ ~ret.found
    /\ \A k \in 0..SearchBound : ~InParent(k)
    /\ \E k \in (SearchBound + 1)..StartDepth : InParent(k)

\* C10: a file in the k-th parent of the start directory, 1 <= k <= the
\* bound, and in no nearer directory, is returned.
C10_FoundWithinBound ==
    Located =>
        \A k \in 1..SearchBound :
            (InParent(k) /\ \A j \in 0..(k - 1) : ~InParent(j)) =>
                ret.found /\ ReturnedDepth = StartDepth - k

\* every locator of the repository
LocatorFns == {"find_file", "find_config_file", "main.find_config_file",
               "jog_cmd.find_config_file"}

\* C11: whatever target file name a locator is given, a path it returns
\* names a file with exactly that name.
C11_ReturnedPathNamesTarget ==
    (pc = "done" /\ call.fn \in LocatorFns /\ ret.found) =>
        Last(ret.path) = call.target_file_name

(***************************************************************************)
(* A run of main() of jogger/main.py.                                      *)
(***************************************************************************)
\* most entries of the tasks mapping
MaxTasks == 2
\* most get_task_proxy() calls made by the tasks of one run
MaxSubCalls == 1

\* the characters of a command line token that is a task name
Chars(token) == <<token>>

\* the keys of the tasks mapping of a run: two valid names, a name with a
\* dash, a key that is not a string
RunNames == {StrName(<<"a">>), StrName(<<"b">>), StrName(<<"-">>),
             [type |-> "int", chars |-> <<"5">>]}

RunDefinitions ==
    {StrDef(<<"make all">>),
     TaskClassDef(<<"Lint the project.">>),
     FuncDef(<<"\n", "Build the docs.", "\n">>),
     FuncDef(NoDoc),
     ObjectDef("int")}

Entry(name, task) == [name |-> name, task |-> task, proxy |-> RaisedProxy(Unset, <<>>)]

DistinctNames(entries) ==
    \A i, j \in 1..Len(entries) : i # j => entries[i].name # entries[j].name

Manifests ==
    {[has_tasks |-> TRUE, entries |-> e] :
        e \in {m \in SeqsUpTo({Entry(n, t) : n \in RunNames, t \in RunDefinitions},
                              MaxTasks) : DistinctNames(m)}}
    \cup {NoManifest}

\* the command lines of a run: no task, a task, a task with arguments
CommandLines ==
    {<<>>, <<"a">>, <<"b">>, <<"a", "--help">>, <<"b", "--verbosity", "2">>,
     <<"--version">>, <<"--bogus">>,
     <<"a", "--stdout", "out.log">>, <<"a", "--stderr", "err.log", "--no-color">>,
     <<"a", "--stdout">>}

SystemExit(code) == [type |-> "SystemExit", message |-> <<>>, code |-> code]

Raise(type, message) == [type |-> type, message |-> message, code |-> 0]

\* OutputWrapper.write(msg, style): the message, the line ending and the
\* style in effect go to the wrapped stream
Write(channel, msg, style, by) ==
    [stream |-> channel.stream,
     style |-> IF style # "none" THEN style ELSE channel.default_style,
     msg |-> msg, ending |-> "\n", by |-> by]

\* what argparse prints itself: usage and errors
ArgparseWrite(stream, what) ==
    [stream |-> stream, style |-> "none", msg |-> <<what>>, ending |-> "",
     by |-> "argparse"]

MainStdout == Channel("<stdout>", "none")

MainStderr == Channel("<stderr>", "none")

HelpFlags == {"-h", "--help"}

IsOption(token) == token \in {"-h", "--help", "-v", "--verbosity", "--stdout",
                              "--stderr", "--no-color", "--version", "--bogus"}

HasAny(args, S) == \E i \in 1..Len(args) : args[i] \in S

\* parse_args() of jogger/main.py: an optional task name, --version, and the
\* remainder; exit |-> -1 when a namespace is returned
parse_args(args) ==
    IF args = <<>>
    THEN [exit |-> -1, task_name |-> "None", extra |-> <<>>, stream |-> "none"]
    ELSE IF Head(args) \in HelpFlags \cup {"--version"}
    THEN [exit |-> 0, task_name |-> "None", extra |-> <<>>, stream |-> "<stdout>"]
    ELSE IF IsOption(Head(args))
    THEN [exit |-> 2, task_name |-> "None", extra |-> <<>>, stream |-> "<stderr>"]
    ELSE [exit |-> -1, task_name |-> Head(args), extra |-> Tail(args),
          stream |-> "none"]

\* get_tasks() of jogger/main.py and jogger/utils/input.py
get_tasks(fs, getcwd, m) ==
    IF ~find_config_file(fs, getcwd, JOG_FILE_NAME).found
    THEN [raised |-> Raise("FileNotFoundError",
                           <<"Could not find ", JOG_FILE_NAME, ".">>),
          tasks |-> <<>>]
    ELSE IF ~m.has_tasks
    THEN [raised |-> Raise("TaskDefinitionError",
                           <<"No tasks dictionary defined in ", JOG_FILE_NAME, ".">>),
          tasks |-> <<>>]
    ELSE [raised |-> NoExc, tasks |-> m.entries]

Init ==
    /\ pc = "parse_args"
    /\ call = NoCall
    /\ ret = NoRet
    /\ cwd = CwdPath(1)
    /\ \/ files = {<<0, JOG_FILE_NAME>>} /\ manifest \in Manifests
       \/ files = {} /\ manifest = NoManifest
    /\ \/ argv = NoneArgv /\ sys_argv \in CommandLines
       \/ argv \in {Argv(c) : c \in CommandLines} /\ sys_argv = <<>>
    /\ arguments = NoArguments
    /\ tasks = <<>>
    /\ idx = 0
    /\ stack = <<>>
    /\ exc = NoExc
    /\ out = <<>>
    /\ exit_code = -1
    /\ ran = <<>>
    /\ subcalls = 0

\* parser.parse_args(argv): None stands for sys.argv[1:]
EffectiveArgs(a) == IF a.is_none THEN sys_argv ELSE a.args

\* main(): arguments = parse_args(argv)
main_parse_args ==
    /\ pc = "parse_args"
    /\ LET r == parse_args(EffectiveArgs(argv))
       IN  IF r.exit >= 0
           THEN /\ pc' = "exited"
                /\ exit_code' = r.exit
                /\ out' = Append(out, ArgparseWrite(r.stream, "usage"))
                /\ UNCHANGED arguments
           ELSE /\ pc' = "get_tasks"
                /\ arguments' = [task_name |-> r.task_name, extra |-> r.extra]
                /\ UNCHANGED <<exit_code, out>>
    /\ UNCHANGED <<files, cwd, pureVars, manifest, sys_argv, argv, tasks, idx,
                   stack, exc, ran, subcalls>>

\* main(): tasks = get_tasks(), with the except clause of the try block
main_get_tasks ==
    /\ pc = "get_tasks"
    /\ LET r == get_tasks(files, cwd, manifest)
       IN  IF r.raised.type \in {"FileNotFoundError", "TaskDefinitionError"}
           THEN /\ out' = Append(out, Write(MainStderr, r.raised.message, "none", "main"))
                /\ pc' = "exited"
                /\ exit_code' = 1
                /\ UNCHANGED <<tasks, idx>>
           ELSE /\ tasks' = r.tasks
                /\ idx' = 1
                /\ pc' = "build"
                /\ UNCHANGED <<out, exit_code>>
    /\ UNCHANGED <<files, cwd, pureVars, manifest, sys_argv, argv, arguments,
                   stack, exc, ran, subcalls>>

\* main(): one iteration of "tasks[name] = TaskProxy(...)", with the except
\* clause of the try block; any other exception leaves main()
main_build_proxy ==
    /\ pc = "build"
    /\ idx <= Len(tasks)
    /\ LET p == main_TaskProxy_init(tasks[idx].name, tasks[idx].task,
                                    MainStdout, MainStderr, Argv(arguments.extra))
       IN  CASE p.raised = "none" ->
                  /\ tasks' = [tasks EXCEPT ![idx].proxy = p]
                  /\ idx' = idx + 1
                  /\ UNCHANGED <<pc, out, exit_code, exc>>
             [] p.raised \in {"FileNotFoundError", "TaskDefinitionError"} ->
                  /\ out' = Append(out, Write(MainStderr, p.message, "none", "main"))
                  /\ pc' = "exited"
                  /\ exit_code' = 1
                  /\ UNCHANGED <<tasks, idx, exc>>
             [] OTHER ->
                  /\ exc' = Raise(p.raised, p.message)
                  /\ pc' = "raised"
                  /\ UNCHANGED <<tasks, idx, out, exit_code>>
    /\ UNCHANGED <<files, cwd, pureVars, manifest, sys_argv, argv, arguments,
                   stack, ran, subcalls>>

\* the index of the entry of the mapping with the given key, 0 for a KeyError
RECURSIVE LookupFrom(_, _, _)
LookupFrom(entries, key, i) ==
    IF i > Len(entries) THEN 0
    ELSE IF entries[i].name = key THEN i
    ELSE LookupFrom(entries, key, i + 1)

Lookup(entries, token) == LookupFrom(entries, StrName(Chars(token)), 1)

UnknownTaskMessage(token) == <<"Unknown task \"", token, "\".">>

\* show_tasks() of jogger/main.py: the lines written for the entries from i on
RECURSIVE show_tasks_lines(_, _)
show_tasks_lines(entries, i) ==
    IF i > Len(entries) THEN <<>>
    ELSE LET task == entries[i].proxy
             task_name == <<"heading(">> \o entries[i].name.chars \o <<")">>
             help_text == IF task.exec_mode = "cli"
                          THEN <<"green(">> \o task.help_text \o <<")">>
                          ELSE <<"blue(">> \o task.help_text \o <<")">>
             line == Write(MainStdout, task_name \o <<": ">> \o help_text,
                           "none", "show_tasks")
             usage == Write(MainStdout,
                            <<"    See \"">> \o task.prog
                                \o <<" --help\" for usage details">>,
                            "none", "show_tasks")
         IN  (IF task.has_own_args THEN <<line, usage>> ELSE <<line>>)
                 \o show_tasks_lines(entries, i + 1)

show_tasks(entries) ==
    IF entries = <<>>
    THEN <<Write(MainStdout, <<"No tasks defined.">>, "none", "show_tasks")>>
    ELSE <<Write(MainStdout, <<"Available tasks:\n">>, "label", "show_tasks")>>
             \o show_tasks_lines(entries, 1)

NoKwargs == [verbosity |-> 1, stdout |-> "<stdout>", stderr |-> "<stderr>",
             no_color |-> FALSE]

\* get_task_settings(name): the settings of the section of the settings
\* file that belongs to the task of this name
get_task_settings(name) == [task_name |-> name]

\* no settings are passed
NoSettings == [task_name |-> <<"unset">>]

NoTask == [name |-> <<>>, settings |-> NoSettings, kwargs |-> NoKwargs,
           stdout |-> NoChannel, stderr |-> NoChannel, no_color |-> FALSE]

\* TaskProxy.execute() in progress: at "executor" before self.executor()
\* is called, at "called" while the task it started runs
ProxyFrame(p) == [fn |-> "TaskProxy.execute", proxy |-> p, task |-> NoTask,
                  at |-> "executor"]

\* Task.execute() in progress: at "handle" before handle() is called, at
\* "resumed" once a proxy.execute() called by handle() has returned
TaskFrame(p, t) == [fn |-> "Task.execute", proxy |-> p, task |-> t,
                    at |-> "handle"]

\* main(): show_tasks(tasks, stdout) when no task name was given
main_show_tasks ==
    /\ pc = "build"
    /\ idx > Len(tasks)
    /\ arguments.task_name = "None"
    /\ out' = out \o show_tasks(tasks)
    /\ pc' = "returned"
    /\ exit_code' = 0
    /\ UNCHANGED <<files, cwd, pureVars, manifest, sys_argv, argv, arguments,
                   tasks, idx, stack, exc, ran, subcalls>>

\* main(): the KeyError of tasks[task_name]
main_unknown_task ==
    /\ pc = "build"
    /\ idx > Len(tasks)
    /\ arguments.task_name # "None"
    /\ Lookup(tasks, arguments.task_name) = 0
    /\ out' = Append(out, Write(MainStderr, UnknownTaskMessage(arguments.task_name),
                                "none", "main"))
    /\ pc' = "exited"
    /\ exit_code' = 1
    /\ UNCHANGED <<files, cwd, pureVars, manifest, sys_argv, argv, arguments,
                   tasks, idx, stack, exc, ran, subcalls>>

\* main(): task.execute() is called for the requested task
main_execute ==
    /\ pc = "build"
    /\ idx > Len(tasks)
    /\ arguments.task_name # "None"
    /\ Lookup(tasks, arguments.task_name) # 0
    /\ stack' = <<ProxyFrame(tasks[Lookup(tasks, arguments.task_name)].proxy)>>
    /\ pc' = "running"
    /\ UNCHANGED <<files, cwd, pureVars, manifest, sys_argv, argv, arguments,
                   tasks, idx, exc, out, exit_code, ran, subcalls>>

(***************************************************************************)
(* Argument parsing of the tasks.                                          *)
(***************************************************************************)
\* a parser that accepts whatever it is given
parse_simple_args_accepting(args) == [exit |-> -1, stream |-> "none"]

\* TaskProxy.parse_simple_args(): a parser without arguments of its own;
\* exit |-> -1 when the arguments are accepted
parse_simple_args(args) ==
    IF HasAny(args, HelpFlags) THEN [exit |-> 0, stream |-> "<stdout>"]
    ELSE IF args # <<>> THEN [exit |-> 2, stream |-> "<stderr>"]
    ELSE [exit |-> -1, stream |-> "none"]

VerbosityChoices == {"0", "1", "2", "3"}

\* int() and str() on the verbosity levels
int(token) == CASE token = "0" -> 0 [] token = "1" -> 1
                [] token = "2" -> 2 [] OTHER -> 3

str(n) == CASE n = 0 -> "0" [] n = 1 -> "1" [] n = 2 -> "2" [] OTHER -> "3"

\* the parser of Task.create_parser() applied to the arguments: -v or
\* --verbosity, --stdout, --stderr, --no-color, and -h or --help
RECURSIVE parse_task_args(_, _, _)
parse_task_args(args, kwargs, unrecognized) ==
    IF args = <<>>
    THEN IF unrecognized
         THEN [exit |-> 2, stream |-> "<stderr>", kwargs |-> kwargs]
         ELSE [exit |-> -1, stream |-> "none", kwargs |-> kwargs]
    ELSE LET t == Head(args)
             rest == Tail(args)
         IN  CASE t \in HelpFlags ->
                    [exit |-> 0, stream |-> "<stdout>", kwargs |-> kwargs]
               [] t \in {"-v", "--verbosity"} ->
                    IF rest = <<>> \/ Head(rest) \notin VerbosityChoices
                    THEN [exit |-> 2, stream |-> "<stderr>", kwargs |-> kwargs]
                    ELSE parse_task_args(Tail(rest),
                             [kwargs EXCEPT !.verbosity = int(Head(rest))],
                             unrecognized)
               [] t = "--stdout" ->
                    IF rest # <<>> /\ ~IsOption(Head(rest))
                    THEN parse_task_args(Tail(rest),
                             [kwargs EXCEPT !.stdout = Head(rest)], unrecognized)
                    ELSE parse_task_args(rest,
                             [kwargs EXCEPT !.stdout = "None"], unrecognized)
               [] t = "--stderr" ->
                    IF rest # <<>> /\ ~IsOption(Head(rest))
                    THEN parse_task_args(Tail(rest),
                             [kwargs EXCEPT !.stderr = Head(rest)], unrecognized)
                    ELSE parse_task_args(rest,
                             [kwargs EXCEPT !.stderr = "None"], unrecognized)
               [] t = "--no-color" ->
                    parse_task_args(rest, [kwargs EXCEPT !.no_color = TRUE],
                                    unrecognized)
               [] OTHER -> parse_task_args(rest, kwargs, TRUE)

\* the variant that takes the no-color value out of the parsed values
Task_init_consuming_no_color(name, settings, kwargs) ==
    [name |-> name, settings |-> settings,
     kwargs |-> [kwargs EXCEPT !.no_color = FALSE],
     stdout |-> Channel(kwargs.stdout, "none"),
     stderr |-> Channel(kwargs.stderr, "error"),
     no_color |-> kwargs.no_color]

\* Task.__init__ once the arguments are parsed: the settings are stored,
\* the output channels are built from the parsed targets with the parsed
\* no_color, and the parsed values, all of them, are kept as kwargs (only
\* 'args' is popped, which the parser of the base class does not define)
Task_init(name, settings, kwargs) ==
    [name |-> name, settings |-> settings, kwargs |-> kwargs,
     stdout |-> Channel(kwargs.stdout, "none"),
     stderr |-> Channel(kwargs.stderr, "error"),
     no_color |-> kwargs.no_color]

\* the arguments with the stream targets always passed on, the process
\* defaults included
Task_get_task_proxy_args_all_streams(t, args) ==
    LET a1 == IF ~HasAny(args, {"-v"}) /\ ~HasAny(args, {"--verbosity"})
              THEN args \o <<"--verbosity", str(t.kwargs.verbosity)>>
              ELSE args
        a2 == IF ~HasAny(a1, {"--stdout"})
              THEN a1 \o <<"--stdout", t.kwargs.stdout>>
              ELSE a1
        a3 == IF ~HasAny(a2, {"--stderr"})
              THEN a2 \o <<"--stderr", t.kwargs.stderr>>
              ELSE a2
        a4 == IF ~HasAny(a3, {"--no-color"}) /\ t.kwargs.no_color
              THEN Append(a3, "--no-color")
              ELSE a3
    IN  [raised |-> NoExc, args |-> a4]

\* the arguments with the options of this task in front of those given
Task_get_task_proxy_args_options_first(t, args) ==
    LET o1 == <<"--verbosity", str(t.kwargs.verbosity)>>
        o2 == IF t.kwargs.stdout # "<stdout>"
              THEN o1 \o <<"--stdout", t.kwargs.stdout>> ELSE o1
        o3 == IF t.kwargs.stderr # "<stderr>"
              THEN o2 \o <<"--stderr", t.kwargs.stderr>> ELSE o2
        o4 == IF t.kwargs.no_color THEN Append(o3, "--no-color") ELSE o3
    IN  [raised |-> NoExc, args |-> o4 \o args]

\* Task._get_task_proxy_args(): the arguments given, then the options of
\* this task that they do not set; a stream target of None (a bare --stdout
\* or --stderr) has no name
Task_get_task_proxy_args(t, args) ==
    LET a1 == IF ~HasAny(args, {"-v"}) /\ ~HasAny(args, {"--verbosity"})
              THEN args \o <<"--verbosity", str(t.kwargs.verbosity)>>
              ELSE args
        a2 == IF ~HasAny(a1, {"--stdout"}) /\ t.kwargs.stdout # "<stdout>"
              THEN a1 \o <<"--stdout", t.kwargs.stdout>>
              ELSE a1
        a3 == IF ~HasAny(a2, {"--stderr"}) /\ t.kwargs.stderr # "<stderr>"
              THEN a2 \o <<"--stderr", t.kwargs.stderr>>
              ELSE a2
        a4 == IF ~HasAny(a3, {"--no-color"}) /\ t.kwargs.no_color
              THEN Append(a3, "--no-color")
              ELSE a3
    IN  IF \/ ~HasAny(a1, {"--stdout"}) /\ t.kwargs.stdout = "None"
           \/ ~HasAny(a2, {"--stderr"}) /\ t.kwargs.stderr = "None"
        THEN [raised |-> Raise("AttributeError",
                               <<"'NoneType' object has no attribute 'name'">>),
              args |-> <<>>]
        ELSE [raised |-> NoExc, args |-> a4]

\* get_task_proxy() without the check of the arguments given for a task that
\* takes none
Task_get_task_proxy_accepts_args(t, fs, getcwd, m, task_name, args) ==
    LET g == get_tasks(fs, getcwd, m)
        i == Lookup(g.tasks, task_name)
        proxy == TaskProxy_init(<<"proxy.execute">>, StrName(Chars(task_name)),
                                g.tasks[i].task, t.stdout, t.stderr, NoneArgv)
        a == Task_get_task_proxy_args(t, args)
    IN  IF g.raised.type = "FileNotFoundError"
        THEN [raised |-> Raise("TaskDefinitionError", g.raised.message),
              proxy |-> RaisedProxy(Unset, <<>>)]
        ELSE IF g.raised # NoExc
        THEN [raised |-> g.raised, proxy |-> RaisedProxy(Unset, <<>>)]
        ELSE IF i = 0
        THEN [raised |-> Raise("TaskDefinitionError", UnknownTaskMessage(task_name)),
              proxy |-> RaisedProxy(Unset, <<>>)]
        ELSE IF proxy.raised # "none"
        THEN [raised |-> Raise(proxy.raised, proxy.message),
              proxy |-> RaisedProxy(Unset, <<>>)]
        ELSE IF proxy.has_own_args
        THEN IF a.raised # NoExc
             THEN [raised |-> a.raised, proxy |-> RaisedProxy(Unset, <<>>)]
             ELSE [raised |-> NoExc, proxy |-> [proxy EXCEPT !.argv = Argv(a.args)]]
        ELSE [raised |-> NoExc, proxy |-> proxy]

\* get_task_proxy() with the FileNotFoundError of get_tasks() left as it is
Task_get_task_proxy_unconverted(t, fs, getcwd, m, task_name, args) ==
    LET g == get_tasks(fs, getcwd, m)
        i == Lookup(g.tasks, task_name)
        proxy == TaskProxy_init(<<"proxy.execute">>, StrName(Chars(task_name)),
                                g.tasks[i].task, t.stdout, t.stderr, NoneArgv)
        a == Task_get_task_proxy_args(t, args)
    IN  IF g.raised # NoExc
        THEN [raised |-> g.raised, proxy |-> RaisedProxy(Unset, <<>>)]
        ELSE IF i = 0
        THEN [raised |-> Raise("TaskDefinitionError", UnknownTaskMessage(task_name)),
              proxy |-> RaisedProxy(Unset, <<>>)]
        ELSE IF proxy.raised # "none"
        THEN [raised |-> Raise(proxy.raised, proxy.message),
              proxy |-> RaisedProxy(Unset, <<>>)]
        ELSE IF proxy.has_own_args
        THEN IF a.raised # NoExc
             THEN [raised |-> a.raised, proxy |-> RaisedProxy(Unset, <<>>)]
             ELSE [raised |-> NoExc, proxy |-> [proxy EXCEPT !.argv = Argv(a.args)]]
        ELSE IF args # <<>>
        THEN [raised |-> Raise("TaskError",
                  <<"String- and function-based tasks do not accept arguments.">>),
              proxy |-> RaisedProxy(Unset, <<>>)]
        ELSE [raised |-> NoExc, proxy |-> proxy]

\* Task.get_task_proxy(task_name, *args): the proxy, or the exception raised
Task_get_task_proxy(t, fs, getcwd, m, task_name, args) ==
    LET g == get_tasks(fs, getcwd, m)
        i == Lookup(g.tasks, task_name)
        proxy == TaskProxy_init(<<"proxy.execute">>, StrName(Chars(task_name)),
                                g.tasks[i].task, t.stdout, t.stderr, NoneArgv)
        a == Task_get_task_proxy_args(t, args)
    IN  IF g.raised.type = "FileNotFoundError"
        THEN [raised |-> Raise("TaskDefinitionError", g.raised.message),
              proxy |-> RaisedProxy(Unset, <<>>)]
        ELSE IF g.raised # NoExc
        THEN [raised |-> g.raised, proxy |-> RaisedProxy(Unset, <<>>)]
        ELSE IF i = 0
        THEN [raised |-> Raise("TaskDefinitionError", UnknownTaskMessage(task_name)),
              proxy |-> RaisedProxy(Unset, <<>>)]
        ELSE IF proxy.raised # "none"
        THEN [raised |-> Raise(proxy.raised, proxy.message),
              proxy |-> RaisedProxy(Unset, <<>>)]
        ELSE IF proxy.has_own_args
        THEN IF a.raised # NoExc
             THEN [raised |-> a.raised, proxy |-> RaisedProxy(Unset, <<>>)]
             ELSE [raised |-> NoExc, proxy |-> [proxy EXCEPT !.argv = Argv(a.args)]]
        ELSE IF args # <<>>
        THEN [raised |-> Raise("TaskError",
                  <<"String- and function-based tasks do not accept arguments.">>),
              proxy |-> RaisedProxy(Unset, <<>>)]
        ELSE [raised |-> NoExc, proxy |-> proxy]

(***************************************************************************)
(* Execution of the tasks.                                                 *)
(***************************************************************************)
\* TaskError and the classes derived from it
TaskErrors == {"TaskError", "LintError"}

\* a handler that catches every Exception (SystemExit is not one)
isinstance_Exception(e) == e.type # "SystemExit"

isinstance_TaskError(e) == e.type \in TaskErrors

\* what a callable task may do: return, raise TaskError, raise another error
CallableOutcomes ==
    {NoExc, Raise("TaskError", <<"Sphinx not detected.">>),
     Raise("ValueError", <<"invalid literal">>)}

\* what handle() may do besides calling get_task_proxy(): return, raise
\* TaskError or a class derived from it, or be the handle() of the base class
HandleOutcomes ==
    {NoExc, Raise("TaskError", <<"Build failed.">>),
     Raise("LintError", <<"Lint failed.">>),
     Raise("NotImplementedError",
           <<"Subclasses of Task must provide a handle() method.">>)}

\* what the __init__ of a Task subclass may raise after Task.__init__
InitOutcomes == {NoExc, Raise("TaskError", <<"Invalid major version format.">>)}

\* the tasks a handle() asks for, and the extra arguments it passes
SubTaskNames == {"a", "b", "-"}

\* a working directory from which the search does not reach the manifest
FarPath == CwdPath(MAX_CONFIG_FILE_SEARCH_DEPTH + 1)

\* what jog.py may define when it is loaded again after it was edited: a
\* definition that is no task, a key that is no valid name, no tasks at all
EditedManifests ==
    {[has_tasks |-> TRUE, entries |-> <<Entry(StrName(<<"a">>), ObjectDef("int"))>>],
     [has_tasks |-> TRUE, entries |-> <<Entry(StrName(<<"-">>), StrDef(<<"make all">>))>>],
     NoManifest}

SubTaskArgs == {<<>>, <<"--no-color">>, <<"-v", "3">>}

Event(name, what, status) == [name |-> name, what |-> what, status |-> status]

\* a callable task was called with these keyword arguments
CallEvent(name, kwargs) ==
    [name |-> name, what |-> "callable", status |-> 0, kwargs |-> kwargs]

\* self.handle(*self.args, **self.kwargs) ran, or went on, with these
\* keyword arguments
HandleEvent(name, what, kwargs) ==
    [name |-> name, what |-> what, status |-> 0, kwargs |-> kwargs]

Top == stack[Len(stack)]

Pop == stack' = Front(stack)

InProxy(executor) ==
    /\ pc = "running"
    /\ exc = NoExc
    /\ stack # <<>>
    /\ Top.fn = "TaskProxy.execute"
    /\ Top.at = "executor"
    /\ Top.proxy.executor = executor

\* the executor that raises TaskError when the command fails
execute_string_checking_status ==
    /\ InProxy("execute_string")
    /\ LET r == parse_simple_args(EffectiveArgs(Top.proxy.argv))
       IN  IF r.exit >= 0
           THEN /\ exc' = SystemExit(r.exit)
                /\ out' = Append(out, ArgparseWrite(r.stream, "usage"))
                /\ UNCHANGED <<stack, ran>>
           ELSE /\ \E status \in {0, 1} :
                      /\ ran' = Append(ran, Event(Top.proxy.name, "os.system", status))
                      /\ IF status = 0
                         THEN Pop /\ UNCHANGED exc
                         ELSE /\ exc' = Raise("TaskError", <<"Command failed.">>)
                              /\ UNCHANGED stack
                /\ UNCHANGED out
    /\ UNCHANGED <<pc, files, cwd, pureVars, manifest, sys_argv, argv,
                   arguments, tasks, idx, exit_code, subcalls>>

\* TaskProxy.execute_string(), called by execute(): the arguments are
\* parsed, then os.system() runs the command, whatever its exit status
execute_string ==
    /\ InProxy("execute_string")
    /\ LET r == parse_simple_args(EffectiveArgs(Top.proxy.argv))
       IN  IF r.exit >= 0
           THEN /\ exc' = SystemExit(r.exit)
                /\ out' = Append(out, ArgparseWrite(r.stream, "usage"))
                /\ UNCHANGED <<stack, ran>>
           ELSE /\ \E status \in {0, 1} :
                      ran' = Append(ran, Event(Top.proxy.name, "os.system", status))
                /\ Pop
                /\ UNCHANGED <<exc, out>>
    /\ UNCHANGED <<pc, files, cwd, pureVars, manifest, sys_argv, argv,
                   arguments, tasks, idx, exit_code, subcalls>>

\* TaskProxy.execute_callable(), called by execute(): the arguments are
\* parsed, then the callable is called; jogger/tasks/base.py gets the
\* settings of the task first and passes them, jogger/main.py passes the
\* two streams only
execute_callable ==
    /\ InProxy("execute_callable")
    /\ LET r == parse_simple_args(EffectiveArgs(Top.proxy.argv))
       IN  IF r.exit >= 0
           THEN /\ exc' = SystemExit(r.exit)
                /\ out' = Append(out, ArgparseWrite(r.stream, "usage"))
                /\ UNCHANGED <<stack, ran>>
           ELSE /\ ran' = Append(ran,
                        IF Top.proxy.cls = "main"
                        THEN CallEvent(Top.proxy.name,
                                 [stdout |-> Top.proxy.stdout,
                                  stderr |-> Top.proxy.stderr])
                        ELSE CallEvent(Top.proxy.name,
                                 [settings |-> get_task_settings(Top.proxy.name),
                                  stdout |-> Top.proxy.stdout,
                                  stderr |-> Top.proxy.stderr]))
                /\ \E e \in CallableOutcomes :
                      /\ exc' = e
                      /\ IF e = NoExc THEN Pop ELSE UNCHANGED stack
                /\ UNCHANGED out
    /\ UNCHANGED <<pc, files, cwd, pureVars, manifest, sys_argv, argv,
                   arguments, tasks, idx, exit_code, subcalls>>

\* TaskProxy.execute_class(), called by execute(): the task is constructed,
\* which parses its arguments, and its execute() is called;
\* jogger/tasks/base.py gets the settings of the task first and constructs
\* it with (prog, settings, argv), jogger/main.py with (prog, argv)
execute_class ==
    /\ InProxy("execute_class")
    /\ LET r == parse_task_args(EffectiveArgs(Top.proxy.argv), NoKwargs, FALSE)
       IN  IF r.exit >= 0
           THEN /\ exc' = SystemExit(r.exit)
                /\ out' = Append(out, ArgparseWrite(r.stream, "usage"))
                /\ UNCHANGED stack
           ELSE /\ \E e \in InitOutcomes :
                      /\ exc' = e
                      /\ IF e = NoExc
                         THEN stack' = [stack EXCEPT ![Len(stack)].at = "called"]
                                  \o <<TaskFrame(Top.proxy,
                                         Task_init(Top.proxy.prog,
                                             IF Top.proxy.cls = "main"
                                             THEN NoSettings
                                             ELSE get_task_settings(Top.proxy.name),
                                             r.kwargs))>>
                         ELSE UNCHANGED stack
                /\ UNCHANGED out
    /\ UNCHANGED <<pc, files, cwd, pureVars, manifest, sys_argv, argv,
                   arguments, tasks, idx, exit_code, ran, subcalls>>

\* TaskProxy.execute(): the executor returned, execute() returns
TaskProxy_execute_return ==
    /\ pc = "running"
    /\ exc = NoExc
    /\ stack # <<>>
    /\ Top.fn = "TaskProxy.execute"
    /\ Top.at = "called"
    /\ Pop
    /\ UNCHANGED <<pc, files, cwd, pureVars, manifest, sys_argv, argv,
                   arguments, tasks, idx, exc, out, exit_code, ran, subcalls>>

\* jogger/main.py writes the name of the class, then str(e)
main_TaskProxy_execute_message(e) == <<e.type, ": ">> \o e.message

\* the message with the name of the class in front
TaskProxy_execute_message_with_class(e) == <<e.type, ": ">> \o e.message

\* what the except clause of TaskProxy.execute() writes for a TaskError:
\* jogger/tasks/base.py writes str(e)
TaskProxy_execute_message(e) == e.message

\* the except clause that takes the exit of the process for an error too
TaskProxy_execute_except_catching_exit ==
    /\ pc = "running"
    /\ exc # NoExc
    /\ stack # <<>>
    /\ Top.fn = "TaskProxy.execute"
    /\ IF isinstance_TaskError(exc) \/ exc.type = "SystemExit"
       THEN /\ out' = Append(out,
                        Write(Top.proxy.stderr,
                              IF Top.proxy.cls = "main"
                              THEN main_TaskProxy_execute_message(exc)
                              ELSE TaskProxy_execute_message(exc),
                              "none", "TaskProxy.execute"))
            /\ exc' = SystemExit(1)
       ELSE UNCHANGED <<out, exc>>
    /\ Pop
    /\ UNCHANGED <<pc, files, cwd, pureVars, manifest, sys_argv, argv,
                   arguments, tasks, idx, exit_code, ran, subcalls>>

\* TaskProxy.execute(): an exception leaves the executor; a TaskError is
\* written to the proxy's stderr and the process exits, any other exception
\* is raised further
TaskProxy_execute_except ==
    /\ pc = "running"
    /\ exc # NoExc
    /\ stack # <<>>
    /\ Top.fn = "TaskProxy.execute"
    /\ IF isinstance_TaskError(exc)
       THEN /\ out' = Append(out,
                        Write(Top.proxy.stderr,
                              IF Top.proxy.cls = "main"
                              THEN main_TaskProxy_execute_message(exc)
                              ELSE TaskProxy_execute_message(exc),
                              "none", "TaskProxy.execute"))
            /\ exc' = SystemExit(1)
       ELSE UNCHANGED <<out, exc>>
    /\ Pop
    /\ UNCHANGED <<pc, files, cwd, pureVars, manifest, sys_argv, argv,
                   arguments, tasks, idx, exit_code, ran, subcalls>>

InTask ==
    /\ pc = "running"
    /\ exc = NoExc
    /\ stack # <<>>
    /\ Top.fn = "Task.execute"

HandleStep == IF Top.at = "handle" THEN "handle" ELSE "handle resumed"

\* Task.execute(): handle() runs, or goes on after a sub-task, and returns
\* or raises
Task_handle ==
    /\ InTask
    /\ ran' = Append(ran, HandleEvent(Top.proxy.name, HandleStep, Top.task.kwargs))
    /\ \E e \in HandleOutcomes :
          /\ exc' = e
          /\ IF e = NoExc THEN Pop ELSE UNCHANGED stack
    /\ UNCHANGED <<pc, files, cwd, pureVars, manifest, sys_argv, argv,
                   arguments, tasks, idx, out, exit_code, subcalls>>

\* Task.execute(): handle() calls self.get_task_proxy(task_name, *args) and
\* then execute() of the proxy it got.  get_task_proxy() looks for the
\* manifest from the working directory of that moment and loads it again:
\* handle() may have changed the directory, jog.py may have been edited
Task_handle_get_task_proxy ==
    /\ InTask
    /\ subcalls < MaxSubCalls
    /\ subcalls' = subcalls + 1
    /\ ran' = Append(ran, HandleEvent(Top.proxy.name, HandleStep, Top.task.kwargs))
    /\ \/ UNCHANGED <<cwd, manifest>>
       \/ cwd' = FarPath /\ UNCHANGED manifest
       \/ manifest' \in EditedManifests /\ UNCHANGED cwd
    /\ \E task_name \in SubTaskNames, args \in SubTaskArgs :
          LET r == Task_get_task_proxy(Top.task, files, cwd', manifest',
                                       task_name, args)
          IN  /\ call' = [fn |-> "Task.get_task_proxy", self |-> Top.task,
                          task_name |-> task_name, args |-> args]
              /\ ret' = r
              /\ IF r.raised # NoExc
                 THEN exc' = r.raised /\ UNCHANGED stack
                 ELSE /\ stack' = [stack EXCEPT ![Len(stack)].at = "resumed"]
                                      \o <<ProxyFrame(r.proxy)>>
                      /\ UNCHANGED exc
    /\ UNCHANGED <<pc, files, sys_argv, argv, arguments, tasks, idx, out,
                   exit_code>>

\* the message with the name of the class in front, as Command.execute()
\* of jog_cmd writes it
Task_execute_message_with_class(e) == <<e.type, ": ">> \o e.message

\* what the except clause of Task.execute() writes for a TaskError
Task_execute_message(e) == e.message

\* the except clause that reports the exit of a sub-task as an error
Task_execute_except_reporting_exit ==
    /\ pc = "running"
    /\ exc # NoExc
    /\ stack # <<>>
    /\ Top.fn = "Task.execute"
    /\ IF isinstance_TaskError(exc) \/ exc.type = "SystemExit"
       THEN /\ out' = Append(out, Write(Top.task.stderr, Task_execute_message(exc),
                                        "none", "Task.execute"))
            /\ exc' = SystemExit(1)
       ELSE UNCHANGED <<out, exc>>
    /\ Pop
    /\ UNCHANGED <<pc, files, cwd, pureVars, manifest, sys_argv, argv,
                   arguments, tasks, idx, exit_code, ran, subcalls>>

\* Task.execute(): an exception leaves handle(); a TaskError is written to
\* the task's stderr and the process exits with code 1, any other exception
\* is raised further
Task_execute_except ==
    /\ pc = "running"
    /\ exc # NoExc
    /\ stack # <<>>
    /\ Top.fn = "Task.execute"
    /\ IF isinstance_TaskError(exc)
       THEN /\ out' = Append(out, Write(Top.task.stderr, Task_execute_message(exc),
                                        "none", "Task.execute"))
            /\ exc' = SystemExit(1)
       ELSE UNCHANGED <<out, exc>>
    /\ Pop
    /\ UNCHANGED <<pc, files, cwd, pureVars, manifest, sys_argv, argv,
                   arguments, tasks, idx, exit_code, ran, subcalls>>

\* main(): task.execute() returned, main() returns and the process ends
main_return ==
    /\ pc = "running"
    /\ stack = <<>>
    /\ exc = NoExc
    /\ pc' = "returned"
    /\ exit_code' = 0
    /\ UNCHANGED <<files, cwd, pureVars, manifest, sys_argv, argv, arguments,
                   tasks, idx, stack, exc, out, ran, subcalls>>

\* main(): an exception leaves task.execute(); nothing in main() catches
\* it: SystemExit ends the process with its code, anything else leaves main()
main_propagate ==
    /\ pc = "running"
    /\ stack = <<>>
    /\ exc # NoExc
    /\ IF exc.type = "SystemExit"
       THEN pc' = "exited" /\ exit_code' = exc.code
       ELSE pc' = "raised" /\ UNCHANGED exit_code
    /\ UNCHANGED <<files, cwd, pureVars, manifest, sys_argv, argv, arguments,
                   tasks, idx, stack, exc, out, ran, subcalls>>

Next ==
    \/ main_parse_args
    \/ main_get_tasks
    \/ main_build_proxy
    \/ main_show_tasks
    \/ main_unknown_task
    \/ main_execute
    \/ execute_string
    \/ execute_callable
    \/ execute_class
    \/ TaskProxy_execute_return
    \/ TaskProxy_execute_except
    \/ Task_handle
    \/ Task_handle_get_task_proxy
    \/ Task_execute_except
    \/ main_return
    \/ main_propagate

Spec == Init /\ [][Next]_vars

(***************************************************************************)
(* Properties of a run of main().                                          *)
(***************************************************************************)
Terminal == {"exited", "returned", "raised"}

\* the mapping main() loaded
Loaded == idx >= 1

RecognisedKinds == {"str", "Task", "function", "class"}

InvalidEntry(e) == ~NameMatches(e.name) \/ e.task.kind \notin RecognisedKinds

HasInvalidEntry == \E i \in 1..Len(tasks) : InvalidEntry(tasks[i])

\* the message of the TaskDefinitionError an invalid entry causes
InvalidEntryMessage(e) ==
    IF ~NameMatches(e.name) THEN InvalidNameMessage(e.name)
    ELSE UnrecognisedMessage(e.name)

WrittenBy(by) == {i \in 1..Len(out) : out[i].by = by}

\* C3: when any entry of the loaded mapping is invalid (name or shape), no
\* task is executed and no task list is printed, whatever task was asked
\* for, and the run ends with the TaskDefinitionError's message on stderr
\* and exit code 1.
C3_InvalidEntryFailsFast ==
    (Loaded /\ HasInvalidEntry) =>
        /\ ran = <<>>
        /\ stack = <<>>
        /\ WrittenBy("show_tasks") = {}
        /\ pc \in Terminal =>
              /\ pc = "exited"
              /\ exit_code = 1
              /\ \E i \in 1..Len(tasks) :
                    /\ InvalidEntry(tasks[i])
                    /\ out = <<Write(MainStderr, InvalidEntryMessage(tasks[i]),
                                     "none", "main")>>

DomainErrors == TaskErrors \cup {"TaskDefinitionError", "FileNotFoundError"}

\* C4: no TaskError, TaskDefinitionError or FileNotFoundError leaves main()
\* as an exception: a run in which one is raised ends with a message on the
\* error stream and exit code 1.
C4_DomainErrorsContained ==
    pc = "raised" => exc.type \notin DomainErrors

InProxyExcept ==
    /\ pc = "running"
    /\ stack # <<>>
    /\ Top.fn = "TaskProxy.execute"
    /\ exc.type \in TaskErrors

\* the step writes one message: msg goes to the given channel
WritesTo(channel, msg) ==
    /\ Len(out') = Len(out) + 1
    /\ SubSeq(out', 1, Len(out)) = out
    /\ Last(out').stream = channel.stream
    /\ Last(out').msg = msg

ExitsNonZero == exc'.type = "SystemExit" /\ exc'.code # 0

\* every run that ended after the given writer wrote ended with exit code 1
EndsWithExit1After(by) ==
    (pc \in Terminal /\ WrittenBy(by) # {}) => (pc = "exited" /\ exit_code = 1)

\* C5 as stated: a TaskError raised by a proxy's executor is written to the
\* error stream as the class name, ": " and the message, and the process
\* ends with a non-zero exit code.
C5_ClassNameAndMessage ==
    [][InProxyExcept =>
          /\ WritesTo(Top.proxy.stderr, <<exc.type, ": ">> \o exc.message)
          /\ ExitsNonZero]_vars

\* C5 as amended: TaskProxy.execute() of jogger/tasks/base.py writes the
\* message alone, that of jogger/main.py writes the class name, ": " and the
\* message; in both the process ends with exit code 1.
C5_MessagePerVersion ==
    /\ [][InProxyExcept =>
             /\ WritesTo(Top.proxy.stderr,
                         IF Top.proxy.cls = "main"
                         THEN <<exc.type, ": ">> \o exc.message
                         ELSE exc.message)
             /\ ExitsNonZero]_vars
    /\ []EndsWithExit1After("TaskProxy.execute")

\* a proxy made by get_task_proxy() reported a TaskError with the message
\* alone, and the process ended with exit code 1
C5_Witness ==
    /\ pc = "exited"
    /\ exit_code = 1
    /\ subcalls = 1
    /\ \E i \in WrittenBy("TaskProxy.execute") :
          out[i].msg \in {<<"Invalid major version format.">>,
                          <<"Sphinx not detected.">>}

InTaskExcept ==
    /\ pc = "running"
    /\ stack # <<>>
    /\ Top.fn = "Task.execute"
    /\ exc.type \in TaskErrors

\* handle() returns normally in this step
HandleReturns == InTask /\ exc' = NoExc /\ stack' = Front(stack)

Propagating ==
    /\ pc = "running"
    /\ stack # <<>>
    /\ exc # NoExc
    /\ exc.type \notin TaskErrors

\* C7: an exception that is not a TaskError leaves Task.execute() and
\* TaskProxy.execute() unchanged: nothing is written and no exit code is set.
C7_OtherExceptionsPropagate ==
    [][Propagating =>
          /\ exc' = exc
          /\ out' = out
          /\ exit_code' = exit_code
          /\ pc' = pc
          /\ stack' = Front(stack)]_vars

\* the NotImplementedError of a sub-task's handle() left main() through both
\* tasks and both proxies, with nothing written
C7_Witness ==
    /\ pc = "raised"
    /\ exc.type = "NotImplementedError"
    /\ subcalls = 1
    /\ Len(ran) = 2
    /\ out = <<>>
    /\ exit_code = -1

(***************************************************************************)
(* Properties of Task.get_task_proxy().                                    *)
(***************************************************************************)
\* get_task_proxy() was called: call holds the task it was called on and its
\* inputs, ret the proxy it returned or the exception it raised
Asked == call.fn = "Task.get_task_proxy"

Returned == Asked /\ ret.raised = NoExc

\* the definition the name stands for in the mapping get_task_proxy() loads
TargetIndex == Lookup(manifest.entries, call.task_name)

TargetKind == manifest.entries[TargetIndex].task.kind

\* the option is in the arguments, followed by the value
HasOption(args, option, value) ==
    \E i \in 1..(Len(args) - 1) : args[i] = option /\ args[i + 1] = value

\* C12: the argv of a proxy returned for a structured task when no extra
\* arguments are given has --verbosity with the parent's verbosity, has
\* --stdout (--stderr) with the parent's target exactly when that target is
\* not the standard output (error) of the process, and has --no-color
\* exactly when the parent was run with it.
C12_PropagatedOptions ==
    (Returned /\ ret.proxy.has_own_args /\ call.args = <<>>) =>
        LET synthesized == ret.proxy.argv.args
            parent == call.self.kwargs
        IN  /\ ~ret.proxy.argv.is_none
            /\ HasOption(synthesized, "--verbosity", str(parent.verbosity))
            /\ HasAny(synthesized, {"--stdout"}) <=> parent.stdout # "<stdout>"
            /\ HasAny(synthesized, {"--stdout"}) =>
                   HasOption(synthesized, "--stdout", parent.stdout)
            /\ HasAny(synthesized, {"--stderr"}) <=> parent.stderr # "<stderr>"
            /\ HasAny(synthesized, {"--stderr"}) =>
                   HasOption(synthesized, "--stderr", parent.stderr)
            /\ HasAny(synthesized, {"--no-color"}) <=> parent.no_color
            /\ (parent.verbosity = 2 /\ parent.stdout = "<stdout>"
                    /\ parent.stderr = "<stderr>" /\ ~parent.no_color) =>
                   synthesized = <<"--verbosity", "2">>

\* a parent run with verbosity 2 and the default streams asked for a
\* structured task without extra arguments
C12_Witness ==
    /\ Returned
    /\ ret.proxy.has_own_args
    /\ call.args = <<>>
    /\ call.self.kwargs.verbosity = 2
    /\ ret.proxy.argv = Argv(<<"--verbosity", "2">>)

\* a parent run with --stderr err.log --no-color passed both on
C12_WitnessRedirected ==
    /\ Returned
    /\ ret.proxy.has_own_args
    /\ call.args = <<>>
    /\ call.self.kwargs.stderr = "err.log"
    /\ ret.proxy.argv = Argv(<<"--verbosity", "1", "--stderr", "err.log", "--no-color">>)

\* the options of the parent task as arguments: its verbosity, its stream
\* targets unless they are those of the process, its color flag
ParentOptions(parent) ==
    <<"--verbosity", str(parent.verbosity)>>
        \o (IF parent.stdout # "<stdout>" THEN <<"--stdout", parent.stdout>> ELSE <<>>)
        \o (IF parent.stderr # "<stderr>" THEN <<"--stderr", parent.stderr>> ELSE <<>>)
        \o (IF parent.no_color THEN <<"--no-color">> ELSE <<>>)

\* the options of the parent task that the extra arguments do not give
MissingOptions(parent, extra) ==
    (IF "-v" \in Range(extra) \/ "--verbosity" \in Range(extra) THEN <<>>
     ELSE <<"--verbosity", str(parent.verbosity)>>)
        \o (IF "--stdout" \in Range(extra) \/ parent.stdout = "<stdout>" THEN <<>>
            ELSE <<"--stdout", parent.stdout>>)
        \o (IF "--stderr" \in Range(extra) \/ parent.stderr = "<stderr>" THEN <<>>
            ELSE <<"--stderr", parent.stderr>>)
        \o (IF "--no-color" \in Range(extra) \/ ~parent.no_color THEN <<>>
            ELSE <<"--no-color">>)

\* C13 as stated: the argv synthesized for a structured task is the
\* propagated options of the parent followed by the extra arguments, in the
\* order given.
C13_OptionsThenExtraArgs ==
    (Returned /\ ret.proxy.has_own_args) =>
        ret.proxy.argv = Argv(ParentOptions(call.self.kwargs) \o call.args)

\* C13 as amended: the argv synthesized for a structured task is the extra
\* arguments, in the order given, followed by those options of the parent
\* (verbosity, stream targets, color flag) that the extra arguments do not
\* give themselves.
C13_ExtraArgsThenOptions ==
    (Returned /\ ret.proxy.has_own_args) =>
        ret.proxy.argv = Argv(call.args \o MissingOptions(call.self.kwargs, call.args))

\* extra arguments that set the verbosity came first and the parent's
\* verbosity was not added, its stream target was
C13_Witness ==
    /\ Returned
    /\ ret.proxy.has_own_args
    /\ call.args = <<"-v", "3">>
    /\ call.self.kwargs.stdout = "out.log"
    /\ ret.proxy.argv = Argv(<<"-v", "3", "--stdout", "out.log">>)

\* the search of get_tasks() reaches a directory that has the manifest
ManifestInReach ==
    \E k \in 0..(MAX_CONFIG_FILE_SEARCH_DEPTH - 1) :
        k <= DirDepth(cwd) /\ <<DirDepth(cwd) - k, JOG_FILE_NAME>> \in files

\* the name is a key of the mapping get_task_proxy() loaded
TargetFound == ManifestInReach /\ manifest.has_tasks /\ TargetIndex # 0

Target == manifest.entries[TargetIndex]

NoProxy == RaisedProxy(Unset, <<>>)

\* C14: for a target that is a shell string or a plain callable,
\* get_task_proxy() raises TaskError whenever extra arguments are given and
\* returns a proxy when none are; the proxy has no synthesized argv.
C14_SimpleTargetsTakeNoArgs ==
    (Asked /\ TargetFound /\ NameMatches(Target.name)
           /\ TargetKind \in {"str", "function", "class"}) =>
        IF call.args # <<>>
        THEN /\ ret.raised.type = "TaskError"
             /\ ret.proxy = NoProxy
        ELSE /\ ret.raised = NoExc
             /\ ret.proxy.raised = "none"
             /\ ret.proxy.task = Target.task
             /\ ~ret.proxy.has_own_args
             /\ ret.proxy.argv = NoneArgv

\* a parent run with --no-color asked for a callable task with an extra
\* argument: TaskError, and no proxy
C14_Witness ==
    /\ Asked
    /\ TargetFound
    /\ TargetKind = "function"
    /\ call.args = <<"--no-color">>
    /\ ret.raised.type = "TaskError"

\* a parent run with --stdout out.log got the proxy of a shell string: its
\* argv is None
C14_WitnessReturned ==
    /\ Returned
    /\ TargetKind = "str"
    /\ call.self.kwargs.stdout = "out.log"
    /\ ret.proxy.argv = NoneArgv

DefinitionError(message) == Raise("TaskDefinitionError", message)

\* the task bodies that ran are still those that had run when
\* get_task_proxy() was called, and no execute() was started
NothingStarted == ran' = ran /\ Len(stack') <= Len(stack)

\* C15: get_task_proxy() raises TaskDefinitionError when the manifest is
\* not found and when the name is not a key of the mapping; the
\* TaskDefinitionError of the TaskProxy constructor (invalid name,
\* unrecognised definition) is raised unchanged; in each case no proxy is
\* returned and no task is executed.
C15_DefinitionErrorsRaised ==
    /\ [](Asked =>
            /\ ~ManifestInReach =>
                  ret.raised = DefinitionError(<<"Could not find ", JOG_FILE_NAME, ".">>)
            /\ (ManifestInReach /\ manifest.has_tasks /\ TargetIndex = 0) =>
                  ret.raised = DefinitionError(UnknownTaskMessage(call.task_name))
            /\ (TargetFound /\ InvalidEntry(Target)) =>
                  ret.raised = DefinitionError(InvalidEntryMessage(Target))
            /\ ret.raised.type = "TaskDefinitionError" =>
                  /\ ret.proxy = NoProxy
                  /\ exc = ret.raised)
    /\ [][(Asked /\ ret.raised.type = "TaskDefinitionError") => NothingStarted]_vars

\* the manifest was out of reach when handle() asked for a task: the
\* TaskDefinitionError left main() and only the parent's handle() had run
C15_Witness ==
    /\ Asked
    /\ ~ManifestInReach
    /\ ret.raised.type = "TaskDefinitionError"
    /\ pc = "raised"
    /\ Len(ran) = 1

\* the key asked for was no valid task name: the constructor's
\* TaskDefinitionError was raised
C15_WitnessInvalidName ==
    /\ Asked
    /\ TargetFound
    /\ ~NameMatches(Target.name)
    /\ ret.raised = DefinitionError(InvalidNameMessage(Target.name))

\* the definition asked for was no task: the constructor's
\* TaskDefinitionError was raised
C15_WitnessUnrecognised ==
    /\ Asked
    /\ TargetFound
    /\ Target.task.kind = "int"
    /\ ret.raised = DefinitionError(UnrecognisedMessage(Target.name))

(***************************************************************************)
(* Properties of the execution of a proxy.                                 *)
(***************************************************************************)
\* execute() of a proxy is about to call its executor
AtExecutor ==
    /\ pc = "running"
    /\ exc = NoExc
    /\ stack # <<>>
    /\ Top.fn = "TaskProxy.execute"
    /\ Top.at = "executor"

\* the proxy is one that get_task_proxy() returned when it was called
\* without extra arguments
SubProxyAtExecutor ==
    /\ AtExecutor
    /\ Returned
    /\ call.args = <<>>
    /\ Top.proxy = ret.proxy

\* the step runs the body of the task of the proxy on top of the stack
BodyRuns(what) ==
    /\ Len(ran') = Len(ran) + 1
    /\ SubSeq(ran', 1, Len(ran)) = ran
    /\ Last(ran').name = Top.proxy.name
    /\ Last(ran').what = what

\* C16: execute() of a proxy that get_task_proxy(name) returned runs the
\* target, whatever its variant and whatever the command line of the parent
\* process: no argument parser ends the process, the shell command or the
\* callable is run, the structured task is constructed.
C16_SubProxyExecutes ==
    [][SubProxyAtExecutor =>
          /\ exc'.type # "SystemExit"
          /\ Top.proxy.executor = "execute_string" => BodyRuns("os.system")
          /\ Top.proxy.executor = "execute_callable" => BodyRuns("callable")
          /\ (Top.proxy.executor = "execute_class" /\ exc' = NoExc) =>
                 /\ Len(stack') = Len(stack) + 1
                 /\ Last(stack').fn = "Task.execute"]_vars

(***************************************************************************)
(* Task.cli(): the shell runner of a task.                                 *)
(***************************************************************************)
\* longest captured output of a command, in bytes
MaxOutputLen == 2

\* the bytes a command writes: "a", the two bytes of e-acute in UTF-8, and
\* a byte that no UTF-8 text contains
Bytes == {97, 195, 169, 255}

\* the exit codes of a command
ReturnCodes == {0, 1, 127}

\* subprocess.run(cmd, shell=True, stdout=PIPE, stderr=PIPE): what the
\* command did is all that the result holds
CompletedProcess(returncode, stdout_bytes, stderr_bytes) ==
    [returncode |-> returncode, stdout |-> stdout_bytes, stderr |-> stderr_bytes]

CompletedProcesses ==
    {CompletedProcess(c, o, e) : c \in ReturnCodes,
                                 o \in SeqsUpTo(Bytes, MaxOutputLen),
                                 e \in SeqsUpTo(Bytes, MaxOutputLen)}

\* bytes.decode('utf-8') on sequences of one- and two-byte forms: the code
\* points, or ok |-> FALSE for the UnicodeDecodeError
RECURSIVE decode(_)
decode(b) ==
    IF b = <<>> THEN [ok |-> TRUE, text |-> <<>>]
    ELSE IF b[1] < 128
    THEN LET r == decode(Tail(b))
         IN  [ok |-> r.ok, text |-> IF r.ok THEN <<b[1]>> \o r.text ELSE <<>>]
    ELSE IF b[1] \in 194..223 /\ Len(b) >= 2 /\ b[2] \in 128..191
    THEN LET r == decode(Tail(Tail(b)))
         IN  [ok |-> r.ok,
              text |-> IF r.ok THEN <<(b[1] - 192) * 64 + (b[2] - 128)>> \o r.text
                       ELSE <<>>]
    ELSE [ok |-> FALSE, text |-> <<>>]

\* OutputWrapper.write(msg, ending=None): the message goes to the wrapped
\* stream in the style in effect
OutputWrapper_write(channel, msg, ending, by) ==
    [stream |-> channel.stream, style |-> channel.default_style, msg |-> msg,
     ending |-> ending, by |-> by]

NoResult == CompletedProcess(-1, <<>>, <<>>)

UnicodeDecodeError ==
    Raise("UnicodeDecodeError", <<"'utf-8' codec can't decode byte">>)

\* Task.cli(cmd, no_output) once the command has completed: what is
\* written, and the result returned or the exception raised
Task_cli(t, result, no_output) ==
    LET o == decode(result.stdout)
        e == decode(result.stderr)
        written == IF no_output THEN <<>>
                   ELSE <<OutputWrapper_write(t.stdout, o.text, "None", "Task.cli")>>
    IN  IF ~no_output /\ ~o.ok
        THEN [raised |-> UnicodeDecodeError, writes |-> <<>>, result |-> NoResult]
        ELSE IF ~e.ok
        THEN [raised |-> UnicodeDecodeError, writes |-> written, result |-> NoResult]
        ELSE [raised |-> NoExc,
              writes |-> Append(written, OutputWrapper_write(t.stderr, e.text,
                                                             "None", "Task.cli")),
              result |-> result]

\* the tasks cli() is called on: one with the streams of the process, one
\* with both streams redirected
CliTasks ==
    {Task_init(<<"jog", " ", "a">>, get_task_settings(<<"a">>), NoKwargs),
     Task_init(<<"jog", " ", "a">>, get_task_settings(<<"a">>),
               [NoKwargs EXCEPT !.stdout = "out.log", !.stderr = "err.log"])}

InitCli ==
    /\ pc = "call"
    /\ RunIdle
    /\ ret = NoRet
    /\ files = {}
    /\ cwd = CwdPath(0)
    /\ call \in [fn : {"Task.cli"}, self : CliTasks, cmd : {<<"git status">>},
                 completed : CompletedProcesses, no_output : BOOLEAN]

\* self.cli(cmd, no_output): the command runs and completes, its output is
\* written, the result is returned
Cli ==
    /\ pc = "call"
    /\ call.fn = "Task.cli"
    /\ LET r == Task_cli(call.self, call.completed, call.no_output)
       IN  /\ out' = out \o r.writes
           /\ exc' = r.raised
           /\ ret' = [raised |-> r.raised, result |-> r.result]
    /\ pc' = "done"
    /\ UNCHANGED <<files, cwd, call, manifest, sys_argv, argv, arguments, tasks,
                   idx, stack, exit_code, ran, subcalls>>

NextCli == Cli

SpecCli == InitCli /\ [][NextCli]_vars

CliDone == pc = "done" /\ call.fn = "Task.cli"

\* the writes of cli() to the given channel
CliWrites(channel) ==
    {i \in 1..Len(out) : out[i].by = "Task.cli" /\ out[i].stream = channel.stream}

\* C17: whatever the command did, cli() raises nothing and returns the
\* result with the exit code and both captured streams; it has written to
\* the error channel once, and to the output channel once exactly when
\* no_output is false.
C17_CliNeverRaises ==
    CliDone =>
        /\ ret.raised = NoExc
        /\ ret.result = call.completed
        /\ Cardinality(CliWrites(call.self.stderr)) = 1
        /\ Cardinality(CliWrites(call.self.stdout)) = IF call.no_output THEN 0 ELSE 1

\* both captured streams are UTF-8 text
CapturedText == decode(call.completed.stdout).ok /\ decode(call.completed.stderr).ok

\* when both captured streams are UTF-8 text, cli() behaves as C17 says
CliHandlesText ==
    (CliDone /\ CapturedText) =>
        /\ ret.raised = NoExc
        /\ ret.result = call.completed
        /\ Cardinality(CliWrites(call.self.stderr)) = 1
        /\ Cardinality(CliWrites(call.self.stdout)) = IF call.no_output THEN 0 ELSE 1

(***************************************************************************)
(* Properties of the executors.                                            *)
(***************************************************************************)
\* the proxy on top of the stack is that of a shell string or of a callable
SimpleAtExecutor ==
    AtExecutor /\ Top.proxy.executor \in {"execute_string", "execute_callable"}

\* the arguments the executor parses: the argv of the proxy, and the
\* command line of the process when that is None
ParsedTail == IF Top.proxy.argv.is_none THEN sys_argv ELSE Top.proxy.argv.args

BodyOf(executor) == IF executor = "execute_string" THEN "os.system" ELSE "callable"

\* C18: the executor of a shell string or callable parses the arguments
\* with a parser that takes none before it runs the body: with --help among
\* them, or anything else, the parser ends the process (exit code 0 for
\* help, 2 otherwise) and the body is not run; the body runs only when
\* there are no arguments, and then it does.
C18_ArgsParsedBeforeBody ==
    [][SimpleAtExecutor =>
          IF ParsedTail = <<>>
          THEN BodyRuns(BodyOf(Top.proxy.executor))
          ELSE /\ ran' = ran
               /\ exc' = SystemExit(IF \E i \in 1..Len(ParsedTail) :
                                          ParsedTail[i] \in HelpFlags
                                    THEN 0 ELSE 2)]_vars

\* "jog a --help" for a shell string: the help was printed, the process
\* ended with exit code 0 and the command was not run
C18_Witness ==
    /\ pc = "exited"
    /\ exit_code = 0
    /\ arguments.task_name = "a"
    /\ arguments.extra = <<"--help">>
    /\ Lookup(tasks, "a") # 0
    /\ tasks[Lookup(tasks, "a")].task.kind = "str"
    /\ ran = <<>>
    /\ Len(out) = 1

\* "jog b --verbosity 2" for a callable: exit code 2, the callable was not
\* called
C18_WitnessRejected ==
    /\ pc = "exited"
    /\ exit_code = 2
    /\ arguments.extra = <<"--verbosity", "2">>
    /\ Lookup(tasks, "b") # 0
    /\ tasks[Lookup(tasks, "b")].task.kind = "function"
    /\ ran = <<>>

\* the step calls a callable / constructs a structured task
CallableCalled == Len(ran') = Len(ran) + 1 /\ Last(ran').what = "callable"

TaskConstructed == Len(stack') = Len(stack) + 1 /\ Last(stack').fn = "Task.execute"

\* C19: a callable is called with exactly the keyword arguments settings
\* (those of the task's name), stdout and stderr (those of the proxy); a
\* structured task is constructed with the proxy's prog, the settings of
\* the task's name and the proxy's argv.
C19_SettingsPassed ==
    [][AtExecutor =>
          /\ (Top.proxy.executor = "execute_callable" /\ CallableCalled) =>
                 Last(ran').kwargs = [settings |-> get_task_settings(Top.proxy.name),
                                      stdout |-> Top.proxy.stdout,
                                      stderr |-> Top.proxy.stderr]
          /\ (Top.proxy.executor = "execute_class" /\ TaskConstructed) =>
                 /\ Last(stack').task.name = Top.proxy.prog
                 /\ Last(stack').task.settings = get_task_settings(Top.proxy.name)
                 /\ Last(stack').task.kwargs =
                        parse_task_args(ParsedTail, NoKwargs, FALSE).kwargs]_vars

\* the proxies get_task_proxy() returns, those of jogger/tasks/base.py, do
\* as C19 says
C19_HoldsForBase ==
    [][(AtExecutor /\ Top.proxy.cls = "base") =>
          /\ (Top.proxy.executor = "execute_callable" /\ CallableCalled) =>
                 Last(ran').kwargs = [settings |-> get_task_settings(Top.proxy.name),
                                      stdout |-> Top.proxy.stdout,
                                      stderr |-> Top.proxy.stderr]
          /\ (Top.proxy.executor = "execute_class" /\ TaskConstructed) =>
                 /\ Last(stack').task.name = Top.proxy.prog
                 /\ Last(stack').task.settings = get_task_settings(Top.proxy.name)
                 /\ Last(stack').task.kwargs =
                        parse_task_args(ParsedTail, NoKwargs, FALSE).kwargs]_vars

(***************************************************************************)
(* Properties of main(): the task asked for.                               *)
(***************************************************************************)
\* a task was asked for and its name is not a key of the mapping loaded
UnknownTaskAsked ==
    /\ Loaded
    /\ arguments.task_name # "None"
    /\ Lookup(tasks, arguments.task_name) = 0

\* C20: when the name asked for is not a key of the loaded mapping (and the
\* entries of the mapping are valid), no task is executed and the run ends
\* with 'Unknown task "<name>".' on the error stream and exit code 1.
C20_UnknownTaskReported ==
    (UnknownTaskAsked /\ ~HasInvalidEntry) =>
        /\ ran = <<>>
        /\ stack = <<>>
        /\ pc \in Terminal =>
              /\ pc = "exited"
              /\ exit_code = 1
              /\ out = <<Write(MainStderr, UnknownTaskMessage(arguments.task_name),
                               "none", "main")>>

\* the same for mappings whose callables all have a docstring
C20_HoldsWithDocstrings ==
    (/\ UnknownTaskAsked
     /\ ~HasInvalidEntry
     /\ \A i \in 1..Len(tasks) : tasks[i].task # FuncDef(NoDoc)) =>
        /\ ran = <<>>
        /\ stack = <<>>
        /\ pc \in Terminal =>
              /\ pc = "exited"
              /\ exit_code = 1
              /\ out = <<Write(MainStderr, UnknownTaskMessage(arguments.task_name),
                               "none", "main")>>

(***************************************************************************)
(* Properties of main(): the list of tasks.                                *)
(***************************************************************************)
\* no task was asked for
ListAsked == Loaded /\ arguments.task_name = "None"

\* the lines of the list for the entries from i on, in the order of the
\* mapping: the name and the help text in the color of the kind of task,
\* then the usage hint if the task is a structured task
RECURSIVE ListedFrom(_, _)
ListedFrom(entries, i) ==
    IF i > Len(entries) THEN <<>>
    ELSE LET e == entries[i]
             color == IF e.task.kind = "str" THEN "green(" ELSE "blue("
             line == Write(MainStdout,
                           <<"heading(">> \o e.name.chars \o <<")", ": ", color>>
                               \o e.proxy.help_text \o <<")">>,
                           "none", "show_tasks")
             hint == Write(MainStdout,
                           <<"    See \"", "jog", " ">> \o e.name.chars
                               \o <<" --help\" for usage details">>,
                           "none", "show_tasks")
         IN  (IF e.task.kind = "Task" THEN <<line, hint>> ELSE <<line>>)
                 \o ListedFrom(entries, i + 1)

Listing ==
    IF tasks = <<>>
    THEN <<Write(MainStdout, <<"No tasks defined.">>, "none", "show_tasks")>>
    ELSE <<Write(MainStdout, <<"Available tasks:\n">>, "label", "show_tasks")>>
             \o ListedFrom(tasks, 1)

\* C21: when no task is asked for (and the entries of the mapping are
\* valid), no task is executed and the run ends having written the list:
\* every task once, in the order of the mapping, each on its own line with
\* its help text in the color of its exec mode, followed by the --help hint
\* exactly for the structured tasks; 'No tasks defined.' for an empty mapping.
C21_TasksListed ==
    (ListAsked /\ ~HasInvalidEntry) =>
        /\ ran = <<>>
        /\ stack = <<>>
        /\ pc \in Terminal =>
              /\ pc = "returned"
              /\ exit_code = 0
              /\ out = Listing

\* the same for mappings whose callables all have a docstring
C21_HoldsWithDocstrings ==
    (/\ ListAsked
     /\ ~HasInvalidEntry
     /\ \A i \in 1..Len(tasks) : tasks[i].task # FuncDef(NoDoc)) =>
        /\ ran = <<>>
        /\ stack = <<>>
        /\ pc \in Terminal =>
              /\ pc = "returned"
              /\ exit_code = 0
              /\ out = Listing

\* a shell string and a structured task were listed, the hint after the
\* structured task only
C21_Listed ==
    /\ pc = "returned"
    /\ ListAsked
    /\ Len(tasks) = 2
    /\ tasks[1].task.kind = "str"
    /\ tasks[2].task.kind = "Task"
    /\ Len(out) = 4

(***************************************************************************)
(* jogger/output.py: terminal styles and the wrapper of an output stream.  *)
(* A text is a sequence of tokens; ESC is the token of the two characters   *)
(* that open an ANSI graphics code.                                        *)
(***************************************************************************)
MaxWrites == 2

COLOR_NAMES == <<"black", "red", "green", "yellow", "blue", "magenta", "cyan", "white">>

Digits == <<"0", "1", "2", "3", "4", "5", "6", "7">>

ColorIndex(c) == CHOOSE x \in DOMAIN COLOR_NAMES : COLOR_NAMES[x] = c

\* '3%s' % x and '4%s' % x for the x-th color, counted from 0
FOREGROUND(c) == <<"3", Digits[ColorIndex(c)]>>

BACKGROUND(c) == <<"4", Digits[ColorIndex(c)]>>

OPTIONS == [bold |-> <<"1">>, underscore |-> <<"4">>, blink |-> <<"5">>, reverse |-> <<"7">>, conceal |-> <<"8">>]

ESC == "\\x1b["

RESET == <<ESC, "0", "m">>

\* ';'.join(code_list)
RECURSIVE str_join(_)
str_join(code_list) ==
    IF code_list = <<>> THEN <<>>
    ELSE IF Len(code_list) = 1 THEN code_list[1]
    ELSE code_list[1] \o <<";">> \o str_join(Tail(code_list))

\* style(text, fg, bg, options, reset): the text enclosed in graphics codes
style(text, fg, bg, options, reset) ==
    LET text1 == IF reset THEN text \o RESET ELSE text
        code_list == (IF fg # "None" THEN <<FOREGROUND(fg)>> ELSE <<>>)
                       \o (IF bg # "None" THEN <<BACKGROUND(bg)>> ELSE <<>>)
                       \o [i \in 1..Len(options) |-> OPTIONS[options[i]]]
    IN  <<ESC>> \o str_join(code_list) \o <<"m">> \o text1

\* make_style(**kwargs)(text)
make_style(kwargs, text) == style(text, kwargs.fg, "None", kwargs.options, TRUE)

PALETTE == [success |-> [fg |-> "green", options |-> <<"bold">>], error |-> [fg |-> "red", options |-> <<"bold">>], warning |-> [fg |-> "yellow", options |-> <<"bold">>], info |-> [fg |-> "None", options |-> <<"bold">>], debug |-> [fg |-> "magenta", options |-> <<"bold">>], heading |-> [fg |-> "cyan", options |-> <<"bold">>], label |-> [fg |-> "None", options |-> <<"bold">>]]

\* Styler(no_color): one attribute per role of the palette
Styler_init(no_color) == [no_color |-> no_color, roles |-> DOMAIN PALETTE]

\* styler.<role>(text)
Styler_role(styler, role, text) ==
    IF styler.no_color THEN text ELSE make_style(PALETTE[role], text)

\* styler.apply(text, fg=fg)
Styler_apply(styler, text, fg) ==
    IF styler.no_color THEN text ELSE style(text, fg, "None", <<>>, TRUE)

\* an underlying stream: whether it has isatty() and what it answers
Stream(name, has_isatty, isatty) == [name |-> name, has_isatty |-> has_isatty, isatty |-> isatty]

Streams == {Stream("tty", TRUE, TRUE), Stream("file", TRUE, FALSE), Stream("raw", FALSE, FALSE)}

Platforms == {"linux", "win32", "Pocket PC"}

\* supports_color(): the module does not import os, so that reading
\* os.environ, which happens exactly on win32, raises NameError
supports_color(out_stream, plat, ansicon) ==
    IF plat # "Pocket PC" /\ plat = "win32"
    THEN [raised |-> Raise("NameError", <<"name 'os' is not defined">>), value |-> FALSE]
    ELSE LET supported_platform == plat # "Pocket PC"
             is_a_tty == out_stream.has_isatty /\ out_stream.isatty
         IN  [raised |-> NoExc, value |-> supported_platform /\ is_a_tty]

\* OutputWrapper(out, ending, default_style, no_color)
OutputWrapper_init(out_stream, ending, default_style, no_color, plat, ansicon) ==
    LET s == IF no_color THEN [raised |-> NoExc, value |-> FALSE]
             ELSE supports_color(out_stream, plat, ansicon)
    IN  [raised |-> s.raised, out |-> out_stream, ending |-> ending,
         styler |-> Styler_init(no_color \/ ~s.value),
         default_style |-> default_style]

\* wrapper.write(msg, style, use_ending): what is passed to the stream
write(w, msg, style_name, use_ending) ==
    LET msg1 == IF use_ending THEN msg \o <<w.ending>> ELSE msg
        st == IF style_name # "None" THEN style_name ELSE w.default_style
    IN  IF st = "None" THEN [raised |-> NoExc, text |-> msg1]
        ELSE IF st \notin w.styler.roles
        THEN [raised |-> Raise("AttributeError", <<"'Styler' object has no attribute '", st, "'">>), text |-> <<>>]
        ELSE [raised |-> NoExc, text |-> Styler_role(w.styler, st, msg1)]

Messages == {<<"hi">>, <<>>}

WrittenStyles == {"None", "success", "info", "normal"}

InitOut ==
    /\ pc = "construct"
    /\ RunIdle
    /\ ret = NoRet
    /\ files = {}
    /\ cwd = CwdPath(0)
    /\ call \in [fn : {"OutputWrapper"}, out : Streams, ending : {"\n"},
                 default_style : {"None", "error"}, no_color : BOOLEAN,
                 platform : Platforms, ansicon : BOOLEAN]

\* the wrapper is constructed
ConstructOutputWrapper ==
    /\ pc = "construct"
    /\ call.fn = "OutputWrapper"
    /\ LET w == OutputWrapper_init(call.out, call.ending, call.default_style,
                                   call.no_color, call.platform, call.ansicon)
       IN  /\ ret' = w
           /\ exc' = w.raised
           /\ pc' = IF w.raised = NoExc THEN "ready" ELSE "raised"
    /\ UNCHANGED <<files, cwd, call, manifest, sys_argv, argv, arguments, tasks,
                   idx, stack, out, exit_code, ran, subcalls>>

\* one write on the wrapper
WrapperWrite ==
    /\ pc = "ready"
    /\ call.fn = "OutputWrapper"
    /\ Len(out) < MaxWrites
    /\ \E msg \in Messages, style_name \in WrittenStyles, use_ending \in BOOLEAN :
          LET r == write(ret, msg, style_name, use_ending)
          IN  /\ exc' = r.raised
              /\ IF r.raised = NoExc
                 THEN /\ out' = Append(out, [msg |-> msg, style |-> style_name,
                                             use_ending |-> use_ending,
                                             text |-> r.text])
                      /\ pc' = pc
                 ELSE /\ out' = out
                      /\ pc' = "raised"
    /\ UNCHANGED <<files, cwd, call, ret, manifest, sys_argv, argv, arguments,
                   tasks, idx, stack, exit_code, ran, subcalls>>

\* one use of wrapper.styler.apply()
StylerApply ==
    /\ pc = "ready"
    /\ call.fn = "OutputWrapper"
    /\ ran = <<>>
    /\ \E fg \in {"green", "blue"} :
          ran' = <<[text |-> <<"help">>, fg |-> fg,
                    result |-> Styler_apply(ret.styler, <<"help">>, fg)]>>
    /\ UNCHANGED <<pc, files, cwd, call, ret, manifest, sys_argv, argv,
                   arguments, tasks, idx, stack, exc, out, exit_code, subcalls>>

NextOut == ConstructOutputWrapper \/ WrapperWrite \/ StylerApply

SpecOut == InitOut /\ [][NextOut]_vars

(***************************************************************************)
(* Properties of the wrapper.                                              *)
(***************************************************************************)
HasEscape(text) == \E i \in DOMAIN text : text[i] = ESC

\* the stream is an interactive terminal
IsATty == call.out.has_isatty /\ call.out.isatty

SupportedPlatform ==
    call.platform # "Pocket PC" /\ (call.platform # "win32" \/ call.ansicon)

\* color was given up or the stream is no terminal
Plain == call.no_color \/ ~IsATty

\* the message with the ending of the wrapper when it is used
Passed(w) == IF w.use_ending THEN w.msg \o <<call.ending>> ELSE w.msg

\* C22: text is styled only on a terminal of a supported platform when
\* no_color was not asked for; when no_color is set or the stream is no
\* terminal the wrapper is constructed and every write with a style of the
\* palette, or with the default style, passes the message to the stream
\* without escape codes.
C22_PlainWithoutColor ==
    call.fn = "OutputWrapper" =>
        /\ (pc # "construct" /\ Plain) => ret.raised = NoExc
        /\ \A i \in DOMAIN out :
              /\ HasEscape(out[i].text) =>
                    IsATty /\ SupportedPlatform /\ ~call.no_color
              /\ Plain => out[i].text = Passed(out[i])
              /\ Plain => ~HasEscape(out[i].text)

\* the same on the platforms other than win32
C22_HoldsOffWin32 ==
    (call.fn = "OutputWrapper" /\ call.platform # "win32") =>
        /\ (pc # "construct" /\ Plain) => ret.raised = NoExc
        /\ \A i \in DOMAIN out :
              /\ HasEscape(out[i].text) =>
                    IsATty /\ SupportedPlatform /\ ~call.no_color
              /\ Plain => out[i].text = Passed(out[i])
              /\ Plain => ~HasEscape(out[i].text)

\* two writes with a style went plainly to a stream that is no terminal
C22_PlainWrites ==
    /\ call.fn = "OutputWrapper"
    /\ ~IsATty
    /\ ~call.no_color
    /\ Len(out) = 2
    /\ \A i \in DOMAIN out : out[i].style = "success" /\ out[i].text = <<"hi", "\n">>

\* a styled write on a terminal
C22_StyledWrite ==
    /\ call.fn = "OutputWrapper"
    /\ Len(out) = 1
    /\ out[1].style = "success"
    /\ out[1].text = <<ESC, "3", "2", ";", "1", "m", "hi", "\n", ESC, "0", "m">>

(***************************************************************************)
(* Properties of main(): the mapping after it is loaded.                   *)
(***************************************************************************)
\* the value the mapping holds under the name of an entry: the definition
\* of the manifest, or the proxy main() has put in its place
Value(e) ==
    IF e.proxy.raised = "none"
    THEN [is |-> "proxy", of |-> e.proxy]
    ELSE [is |-> "definition", of |-> e.task]

Mapping == [i \in DOMAIN tasks |-> [name |-> tasks[i].name, value |-> Value(tasks[i])]]

\* C23: once get_tasks() has returned the mapping, no step of main() or of
\* the execution of a task replaces, adds or removes an entry of it.
C23_MappingReadOnly == [][Loaded => Mapping' = Mapping]_vars

\* the names of the mapping, their order and the definitions of the
\* manifest stay as loaded
C23_NamesAndDefinitionsKept ==
    [][Loaded => /\ Len(tasks') = Len(tasks)
                 /\ \A i \in DOMAIN tasks : /\ tasks'[i].name = tasks[i].name
                                            /\ tasks'[i].task = tasks[i].task]_vars

\* the proxies are in the mapping when the task runs
C23_Replaced ==
    /\ Loaded
    /\ ran # <<>>
    /\ \A i \in DOMAIN tasks : Value(tasks[i]).is = "proxy"

(***************************************************************************)
(* Properties of Task.__init__() and Task.execute(): the parsed values.    *)
(***************************************************************************)
\* the step runs handle() of the task on top, or lets it go on
HandleRuns ==
    /\ InTask
    /\ Len(ran') = Len(ran) + 1
    /\ Last(ran').what \in {"handle", "handle resumed"}

\* the step constructs the task of the proxy on top
ClassConstructed ==
    AtExecutor /\ Top.proxy.executor = "execute_class" /\ TaskConstructed

\* the values the parser of the task gives for the arguments of the proxy
Parsed == parse_task_args(ParsedTail, NoKwargs, FALSE).kwargs

\* the settings execute_class() gives to the constructor
GivenSettings ==
    IF Top.proxy.cls = "main" THEN NoSettings ELSE get_task_settings(Top.proxy.name)

\* the task has the given settings and channels on the parsed targets,
\* with the parsed no_color
ChannelsBuilt(t) ==
    /\ t.settings = GivenSettings
    /\ t.stdout.stream = Parsed.stdout
    /\ t.stderr.stream = Parsed.stderr
    /\ t.stderr.default_style = "error"
    /\ t.no_color = Parsed.no_color

\* C24 as stated: the channels are built from the parsed stdout, stderr and
\* no_color, the settings are stored as given, and handle() gets the other
\* parsed values only, here the verbosity.
C24_OtherValuesPassed ==
    [][/\ ClassConstructed => ChannelsBuilt(Last(stack').task)
       /\ HandleRuns => Last(ran').kwargs = [verbosity |-> Parsed.verbosity]]_vars

\* C24, amended: the channels are built from the parsed stdout, stderr and
\* no_color, the settings are stored as given, and handle() gets every
\* parsed value as a keyword argument: the verbosity, and the stdout and
\* stderr targets and no_color as well.
C24_AllValuesPassed ==
    [][/\ ClassConstructed => ChannelsBuilt(Last(stack').task)
       /\ HandleRuns => Last(ran').kwargs = Parsed]_vars

\* handle() of a task ran that was started with --stderr err.log --no-color
C24_Witness ==
    /\ ran # <<>>
    /\ Last(ran).what = "handle"
    /\ Last(ran).kwargs.no_color
    /\ Last(ran).kwargs.stderr = "err.log"
    /\ Last(ran).kwargs.verbosity = 1

(***************************************************************************)
(* Properties of the run: a failure is reported once.                      *)
(***************************************************************************)
\* the messages the except clauses of Task.execute() and
\* TaskProxy.execute() wrote
Reports == WrittenBy("Task.execute") \cup WrittenBy("TaskProxy.execute")

\* the step writes one message more, by the given writer, to the stream
WritesOnceBy(by, channel) ==
    /\ Len(out') = Len(out) + 1
    /\ SubSeq(out', 1, Len(out)) = out
    /\ Last(out').by = by
    /\ Last(out').stream = channel.stream

\* a TaskError raised while the structured task of the proxy on top was
\* being constructed
InConstructExcept == InProxyExcept /\ Top.proxy.executor = "execute_class"

\* the exit of the process passes through execute() of a proxy
ExitPassesProxy ==
    /\ pc = "running"
    /\ stack # <<>>
    /\ Top.fn = "TaskProxy.execute"
    /\ exc.type = "SystemExit"

C25_WitnessConstruct ==
    /\ pc = "exited"
    /\ exit_code = 1
    /\ subcalls = 0
    /\ ran = <<>>
    /\ Len(out) = 1
    /\ out[1].by = "TaskProxy.execute"

(***************************************************************************)
(* Properties of the run: the failure of a sub-task.                       *)
(***************************************************************************)
\* a TaskError is on its way out of a sub-task: the frames of the proxy
\* that get_task_proxy() returned lie above those of the parent
SubTaskFails ==
    /\ pc = "running"
    /\ Len(stack) >= 3
    /\ exc.type \in TaskErrors

\* the exit of the process is on its way out
Exiting == pc = "running" /\ exc.type = "SystemExit"

ReleaseSteps ==
    <<[label |-> <<"Building">>, cmd |-> <<"python3 -m build">>, failure |-> <<"Build failed.">>],
      [label |-> <<"\nUploading">>, cmd |-> <<"python3 -m twine upload dist/*">>, failure |-> <<"Upload failed.">>],
      [label |-> <<"\nCleaning up">>, cmd |-> <<"rm -rf ./build/ ./dist/ ./*egg-info/">>, failure |-> <<"Cleanup failed.">>]>>

\* what the user may answer to the confirmation
Answers == {"y", "Y", "n", "yes", ""}

\* str.lower() on the answers
lower(answer) == IF answer = "Y" THEN "y" ELSE answer

\* what a command of a step may do: succeed silently or with output, fail
\* with a message, fail with output that is not UTF-8
ReleaseResults ==
    {CompletedProcess(0, <<>>, <<>>), CompletedProcess(0, <<97>>, <<>>),
     CompletedProcess(1, <<>>, <<97>>), CompletedProcess(1, <<>>, <<255>>)}

ReleaseFns == {"jog.ReleaseTask.handle", "release.ReleaseTask.handle"}

ReleaseTask == Task_init(<<"jog", " ", "release">>, get_task_settings(<<"release">>), NoKwargs)

\* a command was run by self.cli() and completed
CliEvent(cmd, completed) ==
    [name |-> <<"release">>, what |-> cmd, status |-> completed.returncode,
     completed |-> completed]

InitRelease ==
    /\ pc = "confirm"
    /\ RunIdle
    /\ ret = NoRet
    /\ files = {}
    /\ cwd = CwdPath(0)
    /\ call \in [fn : ReleaseFns, self : {ReleaseTask}, answer : Answers]

\* the confirmation: input(...), and the return when the answer is not 'y';
\* build() of _release.py then returns to handle(), which writes 'Done!'
ReleaseConfirm ==
    /\ pc = "confirm"
    /\ call.fn \in ReleaseFns
    /\ IF lower(call.answer) # "y"
       THEN /\ pc' = "returned"
            /\ out' = IF call.fn = "release.ReleaseTask.handle"
                      THEN Append(out, Write(call.self.stdout, <<"\nDone!">>,
                                             "label", call.fn))
                      ELSE out
            /\ idx' = idx
       ELSE /\ pc' = "step"
            /\ idx' = 1
            /\ out' = out
    /\ UNCHANGED <<files, cwd, call, ret, manifest, sys_argv, argv, arguments,
                   tasks, stack, exc, exit_code, ran, subcalls>>

\* one step: the label is written, the command is run by self.cli(), and a
\* return code other than 0 raises TaskError
ReleaseStep ==
    /\ pc = "step"
    /\ call.fn \in ReleaseFns
    /\ \E completed \in ReleaseResults :
          LET r == Task_cli(call.self, completed, FALSE)
              label == Write(call.self.stdout, ReleaseSteps[idx].label, "label", call.fn)
          IN  /\ ran' = Append(ran, CliEvent(ReleaseSteps[idx].cmd, completed))
              /\ out' = (out \o <<label>>) \o r.writes
              /\ IF r.raised # NoExc
                 THEN exc' = r.raised /\ pc' = "raised" /\ idx' = idx
                 ELSE IF r.result.returncode # 0
                 THEN /\ exc' = Raise("TaskError", ReleaseSteps[idx].failure)
                      /\ pc' = "raised"
                      /\ idx' = idx
                 ELSE /\ exc' = exc
                      /\ pc' = IF idx = Len(ReleaseSteps) THEN "done" ELSE "step"
                      /\ idx' = IF idx = Len(ReleaseSteps) THEN idx ELSE idx + 1
    /\ UNCHANGED <<files, cwd, call, ret, manifest, sys_argv, argv, arguments,
                   tasks, stack, exit_code, subcalls>>

\* the three steps are done: 'Done!' is written and handle() returns
ReleaseDone ==
    /\ pc = "done"
    /\ call.fn \in ReleaseFns
    /\ out' = Append(out, Write(call.self.stdout, <<"\nDone!">>, "label", call.fn))
    /\ pc' = "returned"
    /\ UNCHANGED <<files, cwd, call, ret, manifest, sys_argv, argv, arguments,
                   tasks, idx, stack, exc, exit_code, ran, subcalls>>

NextRelease == ReleaseConfirm \/ ReleaseStep \/ ReleaseDone

SpecRelease == InitRelease /\ [][NextRelease]_vars

(***************************************************************************)
(* Properties of the release task.                                         *)
(***************************************************************************)
InRelease == call.fn \in ReleaseFns

\* the steps whose command returned an exit code other than 0
FailedSteps == {i \in 1..Len(ran) : ran[i].status # 0}

DoneWritten ==
    \E i \in 1..Len(out) : out[i].by \in ReleaseFns /\ out[i].msg = <<"\nDone!">>

\* the commands run are the first ones of build, upload, cleanup, in that
\* order, each after the ones before it returned 0, and none without the
\* answer 'y' or 'Y'; 'Done!' is not written after a step that failed
StepsInOrder ==
    /\ Len(ran) <= 3
    /\ \A i \in 1..Len(ran) : ran[i].what = ReleaseSteps[i].cmd
    /\ \A i \in 1..Len(ran) : i < Len(ran) => ran[i].status = 0
    /\ call.answer \notin {"y", "Y"} => ran = <<>>
    /\ FailedSteps # {} => ~DoneWritten

\* a step that failed has raised the TaskError of that step
FailureRaised ==
    \A i \in FailedSteps :
        /\ pc = "raised"
        /\ exc = Raise("TaskError", ReleaseSteps[i].failure)

\* C27: the commands of the release run in the order build, upload,
\* cleanup, each only after the earlier ones returned 0; a step that
\* returns another exit code raises the TaskError of that step and no later
\* command is run; without the answer 'y' or 'Y' no command is run; 'Done!'
\* is not written after a failed step.
C27_StepsInOrder == InRelease => (StepsInOrder /\ FailureRaised)

\* the output of every command run was UTF-8 text
OutputDecodes ==
    \A i \in 1..Len(ran) :
        /\ decode(ran[i].completed.stdout).ok
        /\ decode(ran[i].completed.stderr).ok

\* the same when the commands write UTF-8 text
C27_HoldsForTextOutput ==
    (InRelease /\ OutputDecodes) => (StepsInOrder /\ FailureRaised)

\* the order and the guards alone, whatever the commands write
C27_OrderKept == InRelease => StepsInOrder

\* build succeeded and upload failed: 'Upload failed.' is raised, cleanup
\* was not run
C27_UploadFailed ==
    /\ InRelease
    /\ Len(ran) = 2
    /\ ran[2].status = 1
    /\ pc = "raised"
    /\ exc = Raise("TaskError", <<"Upload failed.">>)

\* the three steps succeeded and 'Done!' was written
C27_AllDone == InRelease /\ Len(ran) = 3 /\ pc = "returned" /\ DoneWritten

(***************************************************************************)
(* Properties of the run: the exit status of a shell command.              *)
(***************************************************************************)
\* the step runs the command of the shell task of the proxy on top
CommandRuns ==
    /\ AtExecutor
    /\ Top.proxy.executor = "execute_string"
    /\ Len(ran') = Len(ran) + 1
    /\ Last(ran').what = "os.system"

\* the command of the task asked for is all that ran
ShellTaskRan == Len(ran) = 1 /\ ran[1].what = "os.system"

\* C28: whatever exit status the command of a shell task returns, execute()
\* of its proxy returns without raising and without writing, and a run of
\* main() for a shell task whose command ran ends with exit code 0 and
\* nothing on the error stream.
C28_StatusIgnored ==
    /\ [][CommandRuns =>
              /\ exc' = NoExc
              /\ out' = out
              /\ stack' = Front(stack)]_vars
    /\ []((ShellTaskRan /\ pc \in Terminal) =>
              /\ pc = "returned"
              /\ exit_code = 0
              /\ \A i \in 1..Len(out) : out[i].stream # "<stderr>")

\* the command of the task asked for failed and the run ended with exit
\* code 0
C28_Witness ==
    /\ pc = "returned"
    /\ exit_code = 0
    /\ ShellTaskRan
    /\ ran[1].status = 1
    /\ out = <<>>

====
